---- MODULE Spec2Model ----
(***************************************************************************)
(* Backup / restore and database-lifecycle coordinator of the debit        *)
(* manager app: utils/backupV2.ts (resolveDatabasePath, backupDatabase,    *)
(* backupNow), the backups screen (handleBackupNow, handleRestoreBackup),  *)
(* database/db.native.ts (refreshSQLiteProvider and the remount callback)  *)
(* and app/_layout.tsx (RootLayout, ProviderWithLogs).                     *)
(*                                                                         *)
(* Files of the SQLite directory are named by the sequence of suffixes     *)
(* appended to "debitmanager": <<>> is the bare legacy file, <<".db">>     *)
(* the canonical file, <<".db", "-wal">> its write-ahead log, and so on.   *)
(* A file's content is an abstract byte string; every FileSystem call is   *)
(* atomic: it either takes effect in full or throws with no effect.        *)
(*                                                                         *)
(* Spec runs one handler call at a time, with existence probes             *)
(* (getInfoAsync) that do not throw.  SpecResolver applies the resolver,   *)
(* with throwing probes and listings, and the backup to any directory      *)
(* content.  SpecAsync lets the two handlers interleave as the screen's    *)
(* buttons allow, SpecDoubleTap two overlapping calls of handleBackupNow.  *)
(* SpecRemount runs refreshSQLiteProvider against the mounted provider,    *)
(* with a millisecond clock and callbacks that may throw.  SpecLifecycle   *)
(* starts the application on a directory holding one database file, runs   *)
(* the startup filename migration, mounts the provider, then the handlers  *)
(* and relaunches after a restore.  SpecMigration runs the migration       *)
(* alone on every directory content, SpecTimestamp applies timestamp()     *)
(* to a Date.                                                              *)
(***************************************************************************)
EXTENDS Integers, Sequences, FiniteSets, TLC

\* ---------------------------------------------------------------- bounds
MaxClock == 2   \* clock seconds a behaviour can see (artifact names)
MaxOps == 2     \* handler invocations (Backup Now / Restore) per behaviour
MaxFaults == 2  \* failing I/O calls per behaviour

\* ------------------------------------------------------------ file names
CANONICAL == <<".db">>
BARE == <<>>
\* mutant: the bare name is tried first
DB_CANDIDATES_bareFirst == <<BARE, CANONICAL>>

DB_CANDIDATES == <<CANONICAL, BARE>>
SidecarSuffixes == {"-wal", "-shm"}

\* R: handleRestoreBackup; B and B2: two calls of handleBackupNow
Tasks == {"R", "B", "B2"}
BackupTasks == Tasks \ {"R"}

NoPath == <<"none">>
NotFound == <<"NotFound">>   \* resolveDatabasePath threw
NoSnapshot == 0

\* abstract file contents
F_db == "F_db"          \* content of the canonical file at start
F_bare == "F_bare"      \* content of the bare legacy file at start
F_ext == "F_ext"        \* content of a file picked from outside the backups
F_drive == "F_drive"    \* content of the latest backup on Google Drive
F_wal == "F_wal"
F_shm == "F_shm"
Dir == "dir"            \* marks a directory entry

\* --------------------------------------------------- file-system helpers
Exists(f, p) == p \in DOMAIN f
IsFile(f, p) == p \in DOMAIN f /\ f[p] # Dir
WriteFile(f, p, c) == [q \in (DOMAIN f) \cup {p} |-> IF q = p THEN c ELSE f[q]]
RemoveFile(f, p) == [q \in (DOMAIN f) \ {p} |-> f[q]]
RemoveFiles(f, ps) == [q \in (DOMAIN f) \ ps |-> f[q]]

EndsWithDb(p) == Len(p) > 0 /\ p[Len(p)] = ".db"
WithDb(p) == IF EndsWithDb(p) THEN p ELSE Append(p, ".db")
StartsWithPrefix(p) == Len(p) = 0 \/ p[1] # "other"

Min(S) == CHOOSE x \in S : \A y \in S : x <= y

\* resolveDatabasePath: the set of paths the call can return on directory
\* content f; the empty set stands for the not-found error.  The order of
\* a directory listing is not specified, so the listing fallback can
\* return any entry that starts with the prefix.
CandidateHits(f) == {i \in 1..Len(DB_CANDIDATES) : IsFile(f, DB_CANDIDATES[i])}
resolveDatabasePath(f) ==
  IF CandidateHits(f) # {}
    THEN {DB_CANDIDATES[Min(CandidateHits(f))]}
    ELSE {p \in DOMAIN f : StartsWithPrefix(p)}

\* One call of resolveDatabasePath as the code runs it.  probes is the
\* set of candidates whose getInfoAsync throws (the loop continues), ls is
\* what readDirectoryAsync returns and lt says that it throws instead.
RECURSIVE probeCandidates(_, _, _)
probeCandidates(f, probes, i) ==
  IF i > Len(DB_CANDIDATES) THEN NotFound
  ELSE IF DB_CANDIDATES[i] \notin probes /\ IsFile(f, DB_CANDIDATES[i])
         THEN DB_CANDIDATES[i]
         ELSE probeCandidates(f, probes, i + 1)

\* mutant: the last matching entry of the listing is taken
listingMatch_last(ls) ==
  LET hits == {j \in 1..Len(ls) : StartsWithPrefix(ls[j])}
  IN IF hits = {} THEN NotFound
     ELSE ls[CHOOSE j \in hits : \A k \in hits : k <= j]

listingMatch(ls) ==
  LET hits == {j \in 1..Len(ls) : StartsWithPrefix(ls[j])}
  IN IF hits = {} THEN NotFound ELSE ls[Min(hits)]

\* mutant: a throwing probe makes the whole call fail
resolveCall_probeFatal(f, probes, ls, lt) ==
  IF probes # {} THEN NotFound
  ELSE IF probeCandidates(f, probes, 1) # NotFound
    THEN probeCandidates(f, probes, 1)
    ELSE IF lt THEN NotFound ELSE listingMatch(ls)

\* mutant: the listing is consulted before the fixed candidates
resolveCall_listingFirst(f, probes, ls, lt) ==
  IF ~lt /\ listingMatch(ls) # NotFound
    THEN listingMatch(ls)
    ELSE probeCandidates(f, probes, 1)


resolveCall(f, probes, ls, lt) ==
  IF probeCandidates(f, probes, 1) # NotFound
    THEN probeCandidates(f, probes, 1)
    ELSE IF lt THEN NotFound ELSE listingMatch(ls)

\* the orders in which readDirectoryAsync can list directory f
Listings(f) ==
  {ls \in [1..Cardinality(DOMAIN f) -> DOMAIN f] :
      \A i, j \in DOMAIN ls : i # j => ls[i] # ls[j]}

VARIABLES
  fs,        \* SQLite directory: file name -> content
  bk,        \* backups directory: <<timestamp, kind>> -> content
  now,       \* the clock second that timestamp() reads
  pc,        \* position of each task
  dbPath,    \* backupDatabase: local dbPath of each task
  dest,      \* backupDatabase: timestamp of the artifact written
  src,       \* content of the file backupDatabase resolved, per task
  srcPath,   \* the path resolveDatabasePath returned to backupDatabase
  log,       \* events of the current handler call of each task
  isRestoring,
  dbOpen,    \* the UI-held connection (useSQLiteContext) is open
  preRestoreSnapshot,
  DB_PATH,
  CANONICAL_DB_PATH,
  uri,       \* content of the picked document
  targetPath,
  outcome,   \* what the last finished handler call reported
  fs0,       \* SQLite directory when the current restore started
  picked,    \* timestamp of the picked artifact, 0 for an outside file
  made,      \* artifact timestamp -> content of the file it was made from
  meta,      \* backup_meta.json: lastBackupISO, 0 when absent
  ops,
  faults,    \* failed I/O calls so far
  call,      \* the recorded call of resolveDatabasePath, see NoCall
  root,      \* RootLayout: its state, its migration effect, the provider
  native,    \* module state of database/db.native.ts
  reqs,      \* the calls of refreshSQLiteProvider made so far
  nowMs,     \* the clock that Date.now() reads, in milliseconds
  date,      \* the Date that timestamp() constructs
  localStamp \* what timestamp() returned, NoStamp before the call

vars == <<fs, bk, now, pc, dbPath, dest, src, srcPath, log, isRestoring,
          dbOpen, preRestoreSnapshot, DB_PATH, CANONICAL_DB_PATH, uri,
          targetPath, outcome, fs0, picked, made, meta, ops, faults,
          call, root, native, reqs, nowMs, date, localStamp>>

bkVars == <<dbPath, dest, src, srcPath>>
resolverVars == <<call>>
appVars == <<root, native, reqs, nowMs>>
stampVars == <<date, localStamp>>

\* the record of a resolver call that has not been made
NoCall ==
  [probeThrows |-> {}, listing |-> << >>, listThrows |-> FALSE,
   resolved |-> NoPath, resolvedOn |-> << >>]

probeThrows == call.probeThrows   \* candidates whose getInfoAsync threw
listing == call.listing           \* what readDirectoryAsync returned
listThrows == call.listThrows     \* readDirectoryAsync threw
resolved == call.resolved         \* the returned path, or NotFound
resolvedOn == call.resolvedOn     \* the directory content it ran on
uiVars == <<isRestoring, dbOpen>>

restoreVars == <<preRestoreSnapshot, DB_PATH, CANONICAL_DB_PATH, uri,
                 targetPath, fs0, picked>>

\* ------------------------------------- root layout and db.native.ts state
DEBOUNCE_MS == 1000
HalfWindow == DEBOUNCE_MS \div 2   \* the clock advances in half windows
StartMs == DEBOUNCE_MS   \* Date.now() is far more than a window past 0
MaxWindows == 3          \* debounce windows a behaviour can see
MaxRequests == 3         \* calls of refreshSQLiteProvider per behaviour
MaxLaunches == 2         \* application starts per behaviour

\* the callbacks handed to registerSQLiteProviderRemount
NoCallback == "null"
RefreshDbCallback == "refreshDb"   \* RootLayout: () => { refreshDb() }
LogCallback == "log"               \* ProviderWithLogs: () => { log }

Suffixes == <<"-wal", "-shm">>

\* db.native.ts when the module has been loaded
NativeLoaded ==
  [providerRemountCallbackNative |-> NoCallback, lastNativeRefresh |-> 0]

providerRemountCallbackNative == native.providerRemountCallbackNative
lastNativeRefresh == native.lastNativeRefresh

registerSQLiteProviderRemount(m, cb) ==
  [m EXCEPT !.providerRemountCallbackNative = cb]

\* RootLayout after its first commit: useState(0), useState(false), and
\* the migration effect about to probe the two files
Launched ==
  [pc |-> "m_probeBare", bareInfo |-> FALSE, canonicalInfo |-> FALSE,
   suffix |-> 1, migrationDone |-> FALSE, dbKey |-> 0,
   provider |-> "none", providerKey |-> 0, acks |-> 0, launches |-> 1]

\* RootLayout once the migration effect has ended and the provider has
\* been mounted
Started ==
  [Launched EXCEPT !.pc = "done", !.migrationDone = TRUE,
                   !.provider = "mounted"]

migrationDone == root.migrationDone
dbKey == root.dbKey

\* ------------------------------------------------------------ timestamp
\* getTimezoneOffset() is in minutes west of UTC: at most MaxOffsetWest
\* for a zone behind UTC, at least -MaxOffsetEast for one ahead of it
MaxOffsetWest == 720
MaxOffsetEast == 840

\* a Date, by what its getters return
Dates ==
  [fullYear : {1970, 9999}, month : {0, 9, 11}, date : {1, 31},
   hours : {0, 23}, minutes : {59}, seconds : {9, 10},
   timezoneOffset : (0 - MaxOffsetEast) .. MaxOffsetWest]
Epoch ==
  [fullYear |-> 1970, month |-> 0, date |-> 1, hours |-> 0, minutes |-> 0,
   seconds |-> 0, timezoneOffset |-> 0]
NoStamp == << >>

\* strings are sequences of characters
DecimalDigits == <<"0", "1", "2", "3", "4", "5", "6", "7", "8", "9">>
Abs(n) == IF n < 0 THEN 0 - n ELSE n

\* String(n) of an integer n
RECURSIVE StringOf(_)
StringOf(n) ==
  IF n < 0 THEN <<"-">> \o StringOf(0 - n)
  ELSE IF n < 10 THEN <<DecimalDigits[n + 1]>>
  ELSE StringOf(n \div 10) \o <<DecimalDigits[(n % 10) + 1]>>

RECURSIVE padStart(_, _, _)
padStart(s, targetLength, c) ==
  IF Len(s) >= targetLength THEN s ELSE padStart(<<c>> \o s, targetLength, c)

pad(n) == padStart(StringOf(n), 2, "0")

\* mutant: the sign of getTimezoneOffset() is kept
tzOffsetMinutes_west(d) == d.timezoneOffset

tzOffsetMinutes(d) == 0 - d.timezoneOffset

timestamp(d) ==
  LET year == StringOf(d.fullYear)
      month == pad(d.month + 1)
      day == pad(d.date)
      hours == pad(d.hours)
      minutes == pad(d.minutes)
      seconds == pad(d.seconds)
      tzSign == IF tzOffsetMinutes(d) >= 0 THEN "+" ELSE "-"
      tzHours == pad(Abs(tzOffsetMinutes(d)) \div 60)
      tzMins == pad(Abs(tzOffsetMinutes(d)) % 60)
  IN year \o <<"-">> \o month \o <<"-">> \o day \o <<"T">> \o hours
       \o <<"-">> \o minutes \o <<"-">> \o seconds \o <<tzSign>>
       \o tzHours \o tzMins


Layouts == {"none", "canonical", "bare", "both"}

InitFs(layout, sidecars) ==
  LET main == IF layout = "canonical" THEN {CANONICAL}
              ELSE IF layout = "bare" THEN {BARE}
              ELSE IF layout = "both" THEN {CANONICAL, BARE}
              ELSE {}
      side == IF sidecars
                THEN {Append(m, s) : m \in main, s \in SidecarSuffixes}
                ELSE {}
  IN [p \in main \cup side |->
        IF p = CANONICAL THEN F_db
        ELSE IF p = BARE THEN F_bare
        ELSE IF p[Len(p)] = "-wal" THEN F_wal ELSE F_shm]

\* the handlers' state when the screen has been built
InitHandlers ==
  /\ bk = << >>
  /\ now = 1
  /\ pc = [t \in Tasks |-> "idle"]
  /\ dbPath = [t \in Tasks |-> NoPath]
  /\ dest = [t \in Tasks |-> NoSnapshot]
  /\ src = [t \in Tasks |-> "none"]
  /\ srcPath = [t \in Tasks |-> NoPath]
  /\ log = [t \in Tasks |-> << >>]
  /\ isRestoring = FALSE
  /\ dbOpen = TRUE
  /\ preRestoreSnapshot = NoSnapshot
  /\ DB_PATH = NoPath
  /\ CANONICAL_DB_PATH = NoPath
  /\ uri = "none"
  /\ targetPath = NoPath
  /\ outcome = "none"
  /\ fs0 = << >>
  /\ picked = 0
  /\ made = << >>
  /\ meta = 0
  /\ ops = 0
  /\ faults = 0
  /\ call = NoCall

\* everything but the content of the SQLite directory, with the
\* application started
InitRest ==
  /\ InitHandlers
  /\ date = Epoch
  /\ localStamp = NoStamp
  /\ root = Started
  /\ native = [NativeLoaded EXCEPT !.providerRemountCallbackNative = LogCallback]
  /\ reqs = << >>
  /\ nowMs = StartMs

Init ==
  /\ \E layout \in Layouts, sidecars \in BOOLEAN :
       /\ (layout = "none" => ~sidecars)
       /\ fs = InitFs(layout, sidecars)
  /\ InitRest

\* an I/O call succeeds or, while the budget lasts, throws
Oks == IF faults < MaxFaults THEN BOOLEAN ELSE {TRUE}
Fault(ok) == faults' = IF ok THEN faults ELSE faults + 1
Throws == IF faults < MaxFaults THEN {"throws"} ELSE {}

Goto(t, label) == pc' = [pc EXCEPT ![t] = label]
Emit(t, e) == log' = [log EXCEPT ![t] = Append(@, e)]

\* the clock advances; only the steps that read it can tell when
Tick ==
  /\ \E t \in Tasks : pc[t] \in {"bk_copyDest", "n_meta"}
  /\ now < MaxClock
  /\ now' = now + 1
  /\ UNCHANGED <<resolverVars, appVars, stampVars>>
  /\ UNCHANGED <<fs, bk, pc, bkVars, log, uiVars, restoreVars, outcome,
                 made, meta, ops, faults>>

\* ------------------------------------------------------- backupDatabase
\* mutant: a failed snapshot aborts the restore
BackupThrowPc_abort(t) == IF t = "R" THEN "r_catch" ELSE "done"

\* mutant: the restore does not close the UI-held connection
BackupReturnPc_skipClose(t) == IF t = "R" THEN "r_resolve" ELSE "n_meta"

\* Where a task continues when its backupDatabase call throws: the restore
\* handler logs and carries on, backupNow fails and handleBackupNow alerts.
BackupThrowPc(t) == IF t = "R" THEN "r_checkpoint" ELSE "done"
BackupReturnPc(t) == IF t = "R" THEN "r_checkpoint" ELSE "n_meta"

BackupThrows(t, events) ==
  /\ Goto(t, BackupThrowPc(t))
  /\ log' = [log EXCEPT ![t] = @ \o events \o
                 (IF t = "R" THEN <<"snapFailed">> ELSE << >>)]
  /\ outcome' = IF t # "R" THEN "backupFailed" ELSE outcome

\* let dbPath = await resolveDatabasePath()
bk_resolve(t) ==
  /\ pc[t] = "bk_resolve"
  /\ IF resolveDatabasePath(fs) = {}
       THEN /\ BackupThrows(t, << >>)
            /\ UNCHANGED <<dbPath, src, srcPath>>
       ELSE /\ \E p \in resolveDatabasePath(fs) :
                 /\ dbPath' = [dbPath EXCEPT ![t] = p]
                 /\ srcPath' = [srcPath EXCEPT ![t] = p]
                 /\ src' = [src EXCEPT ![t] = fs[p]]
            /\ Goto(t, "bk_prefer")
            /\ UNCHANGED <<log, outcome>>
  /\ UNCHANGED <<resolverVars, appVars, stampVars>>
  /\ UNCHANGED <<fs, bk, now, dest, uiVars, restoreVars, made, meta, ops, faults>>

\* prefer the .db variant of a bare result if it exists
bk_prefer(t) ==
  /\ pc[t] = "bk_prefer"
  /\ dbPath' = [dbPath EXCEPT ![t] =
                  IF IsFile(fs, WithDb(@)) THEN WithDb(@) ELSE @]
  /\ Goto(t, "bk_release")
  /\ UNCHANGED <<resolverVars, appVars, stampVars>>
  /\ UNCHANGED <<fs, bk, now, dest, src, srcPath, log, uiVars, restoreVars,
                 outcome, made, meta, ops, faults>>

\* mutant: backupDatabase does not call the handle-release helper
bk_release_skipped(t) ==
  /\ pc[t] = "bk_release"
  /\ Goto(t, "bk_copyBare")
  /\ UNCHANGED <<resolverVars, appVars, stampVars>>
  /\ UNCHANGED <<fs, bk, now, bkVars, log, uiVars, restoreVars, outcome,
                 made, meta, ops, faults>>

\* closeDatabaseHandlesForBackup(): best effort, its result only decides
\* the settle delay.  The helper is exported by the core DB module, so the
\* `typeof ... === 'function'` branch is the one taken; whether the close
\* succeeds or throws the step counts as attempted and the copy follows.
bk_release(t) ==
  /\ pc[t] = "bk_release"
  /\ Emit(t, "release")
  /\ Goto(t, "bk_copyBare")
  /\ UNCHANGED <<resolverVars, appVars, stampVars>>
  /\ UNCHANGED <<fs, bk, now, bkVars, uiVars, restoreVars, outcome,
                 made, meta, ops, faults>>

\* a bare source is copied to its .db sibling; a failure is only logged
bk_copyBare(t) ==
  /\ pc[t] = "bk_copyBare"
  /\ IF EndsWithDb(dbPath[t])
       THEN UNCHANGED <<fs, dbPath, log, faults>>
       ELSE /\ Emit(t, "copyLive")
            /\ \E ok \in Oks :
                 /\ Fault(ok)
                 /\ IF ok /\ IsFile(fs, dbPath[t])
                   THEN /\ fs' = WriteFile(fs, WithDb(dbPath[t]), fs[dbPath[t]])
                        /\ dbPath' = [dbPath EXCEPT ![t] = WithDb(@)]
                   ELSE UNCHANGED <<fs, dbPath>>
  /\ Goto(t, "bk_mkdir")
  /\ UNCHANGED <<resolverVars, appVars, stampVars>>
  /\ UNCHANGED <<bk, now, dest, src, srcPath, uiVars, restoreVars, outcome,
                 made, meta, ops>>

\* makeDirectoryAsync(BACKUP_DIR, { intermediates: true })
bk_mkdir(t) ==
  /\ pc[t] = "bk_mkdir"
  /\ \E ok \in Oks :
       /\ Fault(ok)
       /\ IF ok THEN /\ Goto(t, "bk_copyDest")
                  /\ UNCHANGED <<log, outcome>>
             ELSE BackupThrows(t, << >>)
  /\ UNCHANGED <<resolverVars, appVars, stampVars>>
  /\ UNCHANGED <<fs, bk, now, bkVars, uiVars, restoreVars, made, meta, ops>>

\* mutant: a failed copy to the destination is only logged and the call
\* returns the destination path all the same
bk_copyDest_ignoreFailure(t) ==
  /\ pc[t] = "bk_copyDest"
  /\ \E ok \in Oks :
       /\ Fault(ok)
       /\ IF ok /\ IsFile(fs, dbPath[t])
         THEN /\ bk' = WriteFile(bk, <<now, "db">>, fs[dbPath[t]])
              /\ made' = WriteFile(made, now, src[t])
              /\ dest' = [dest EXCEPT ![t] = now]
              /\ Emit(t, "copyLive")
              /\ Goto(t, "bk_sidecars")
         ELSE /\ Emit(t, "copyLive")
              /\ Goto(t, BackupReturnPc(t))
              /\ UNCHANGED <<bk, made, dest>>
  /\ UNCHANGED <<resolverVars, appVars, stampVars>>
  /\ UNCHANGED <<fs, now, dbPath, src, srcPath, uiVars, restoreVars, meta,
                 ops, outcome>>

\* mutant: the source is moved, not copied, to the backup destination
bk_copyDest_move(t) ==
  /\ pc[t] = "bk_copyDest"
  /\ \E ok \in Oks :
       /\ Fault(ok)
       /\ IF ok /\ IsFile(fs, dbPath[t])
         THEN /\ bk' = WriteFile(bk, <<now, "db">>, fs[dbPath[t]])
              /\ fs' = RemoveFile(fs, dbPath[t])
              /\ made' = WriteFile(made, now, src[t])
              /\ dest' = [dest EXCEPT ![t] = now]
              /\ Emit(t, "copyLive")
              /\ Goto(t, "bk_sidecars")
              /\ UNCHANGED outcome
         ELSE /\ BackupThrows(t, <<"copyLive">>)
              /\ UNCHANGED <<fs, bk, made, dest>>
  /\ UNCHANGED <<resolverVars, appVars, stampVars>>
  /\ UNCHANGED <<now, dbPath, src, srcPath, uiVars, restoreVars, meta, ops>>

\* dest = BACKUP_DIR + 'debitmanager-' + timestamp() + '.db'; copy to dest
bk_copyDest(t) ==
  /\ pc[t] = "bk_copyDest"
  /\ \E ok \in Oks :
       /\ Fault(ok)
       /\ IF ok /\ IsFile(fs, dbPath[t])
         THEN /\ bk' = WriteFile(bk, <<now, "db">>, fs[dbPath[t]])
              /\ made' = WriteFile(made, now, src[t])
              /\ dest' = [dest EXCEPT ![t] = now]
              /\ Emit(t, "copyLive")
              /\ Goto(t, "bk_sidecars")
              /\ UNCHANGED outcome
         ELSE /\ BackupThrows(t, <<"copyLive">>)
              /\ UNCHANGED <<bk, made, dest>>
  /\ UNCHANGED <<resolverVars, appVars, stampVars>>
  /\ UNCHANGED <<fs, now, dbPath, src, srcPath, uiVars, restoreVars, meta,
                 ops>>

\* sidecars of the source are copied next to the artifact, best effort
CopySidecar(b, f, from, to, ok) ==
  IF ok /\ Exists(f, from) THEN WriteFile(b, to, f[from]) ELSE b

bk_sidecars(t) ==
  /\ pc[t] = "bk_sidecars"
  /\ \E okWal \in Oks, okShm \in Oks :
       /\ faults' = faults + (IF okWal THEN 0 ELSE 1) + (IF okShm THEN 0 ELSE 1)
       /\ faults' <= MaxFaults
       /\ okWal \/ Exists(fs, Append(dbPath[t], "-wal"))
       /\ okShm \/ Exists(fs, Append(dbPath[t], "-shm"))
       /\ bk' = CopySidecar(
               CopySidecar(bk, fs, Append(dbPath[t], "-wal"),
                           <<dest[t], "wal">>, okWal),
               fs, Append(dbPath[t], "-shm"), <<dest[t], "shm">>, okShm)
  /\ Goto(t, BackupReturnPc(t))
  /\ preRestoreSnapshot' = IF t = "R" THEN dest[t] ELSE preRestoreSnapshot
  /\ log' = [log EXCEPT ![t] =
                 IF t = "R" THEN Append(@, "snapDone") ELSE @]
  /\ UNCHANGED <<resolverVars, appVars, stampVars>>
  /\ UNCHANGED <<fs, now, bkVars, uiVars, DB_PATH, CANONICAL_DB_PATH, uri,
                 targetPath, fs0, picked, outcome, made, meta, ops>>

backupDatabase(t) ==
  \/ bk_resolve(t) \/ bk_prefer(t) \/ bk_release(t) \/ bk_copyBare(t)
  \/ bk_mkdir(t) \/ bk_copyDest(t) \/ bk_sidecars(t)

\* ------------------------------------------- handleBackupNow / backupNow
\* The Backup Now button can be pressed: the action section is rendered
\* only while isRestoring is false, and the button is disabled by
\* isRestoring (and by loading, which backupNow never sets).  The handler
\* sets no busy flag of its own.
tapBackupNow(t) ==
  /\ pc[t] = "idle"
  /\ ~isRestoring

\* handleBackupNow is called: it calls backupNow, which calls
\* backupDatabase
startBackupNow(t) ==
  /\ tapBackupNow(t)
  /\ ops < MaxOps
  /\ ops' = ops + 1
  /\ Goto(t, "bk_resolve")
  /\ log' = [log EXCEPT ![t] = << >>]
  /\ outcome' = "none"
  /\ UNCHANGED <<resolverVars, appVars, stampVars>>
  /\ UNCHANGED <<fs, bk, now, bkVars, uiVars, restoreVars, made, meta, faults>>

\* handleBackupNow with one handler running at a time
handleBackupNow ==
  /\ \A t \in Tasks : pc[t] = "idle"
  /\ startBackupNow("B")

\* mutant: the stored instant is the one in the artifact's name
n_meta_artifactTime(t) ==
  /\ pc[t] = "n_meta"
  /\ \E ok \in Oks :
       /\ Fault(ok)
       /\ meta' = IF ok THEN dest[t] ELSE meta
  /\ Goto(t, "n_drive")
  /\ UNCHANGED <<resolverVars, appVars, stampVars>>
  /\ UNCHANGED <<fs, bk, now, bkVars, log, uiVars, restoreVars, outcome, made,
                 ops>>

\* setLastBackupTimestamp(new Date()): a failed write is only logged
n_meta(t) ==
  /\ pc[t] = "n_meta"
  /\ \E ok \in Oks :
       /\ Fault(ok)
       /\ meta' = IF ok THEN now ELSE meta
  /\ Goto(t, "n_drive")
  /\ UNCHANGED <<resolverVars, appVars, stampVars>>
  /\ UNCHANGED <<fs, bk, now, bkVars, log, uiVars, restoreVars, outcome, made,
                 ops>>

\* The sinks only read the artifact.  A sink event in the log is the
\* call of the sink; a flag event after it is the result flag of backupNow
\* that the call set to true.
Flags == {"googleDrive", "uploaded", "shared"}

\* mutant: a successful Drive upload does not end backupNow
n_drive_continue(t) ==
  /\ pc[t] = "n_drive"
  /\ \E googleDrive \in BOOLEAN :
       log' = [log EXCEPT ![t] = @ \o (IF googleDrive
                                         THEN <<"drive", "googleDrive">>
                                         ELSE <<"drive">>)]
  /\ Goto(t, "n_upload")
  /\ UNCHANGED outcome
  /\ UNCHANGED <<resolverVars, appVars, stampVars>>
  /\ UNCHANGED <<fs, bk, now, bkVars, uiVars, restoreVars, made, meta, ops,
                 faults>>

\* googleDrive = await uploadToGoogleDrive(uri): true ends backupNow;
\* false (not signed in, or the upload threw inside) tries the next sink
n_drive(t) ==
  /\ pc[t] = "n_drive"
  /\ \E googleDrive \in BOOLEAN :
       IF googleDrive
         THEN /\ log' = [log EXCEPT ![t] = @ \o <<"drive", "googleDrive">>]
              /\ Goto(t, "done")
              /\ outcome' = "backupUploaded"
         ELSE /\ Emit(t, "drive")
              /\ Goto(t, "n_upload")
              /\ UNCHANGED outcome
  /\ UNCHANGED <<resolverVars, appVars, stampVars>>
  /\ UNCHANGED <<fs, bk, now, bkVars, uiVars, restoreVars, made, meta, ops,
                 faults>>

\* uploaded = await uploadBackupIfConfigured(uri): false when no upload
\* URL is configured, when the read or the fetch threw and when the
\* response was not ok
n_upload(t) ==
  /\ pc[t] = "n_upload"
  /\ \E uploaded \in BOOLEAN :
       IF uploaded
         THEN /\ log' = [log EXCEPT ![t] = @ \o <<"upload", "uploaded">>]
              /\ Goto(t, "done")
              /\ outcome' = "backupSaved"
         ELSE /\ Emit(t, "upload")
              /\ Goto(t, "n_share")
              /\ UNCHANGED outcome
  /\ UNCHANGED <<resolverVars, appVars, stampVars>>
  /\ UNCHANGED <<fs, bk, now, bkVars, uiVars, restoreVars, made, meta, ops,
                 faults>>

\* mutant: a throw of the share sheet makes backupNow fail
n_share_fatal(t) ==
  /\ pc[t] = "n_share"
  /\ \E shared \in {"true", "false", "throws"} :
       /\ log' = [log EXCEPT ![t] = @ \o (IF shared = "true"
                                            THEN <<"share", "shared">>
                                            ELSE <<"share">>)]
       /\ outcome' = IF shared = "throws" THEN "backupFailed"
                     ELSE "backupSaved"
  /\ Goto(t, "done")
  /\ UNCHANGED <<resolverVars, appVars, stampVars>>
  /\ UNCHANGED <<fs, bk, now, bkVars, uiVars, restoreVars, made, meta, ops,
                 faults>>

\* try { shared = await shareBackup(uri) } catch: true after the share
\* sheet, false when sharing is not available, and a throw leaves false
n_share(t) ==
  /\ pc[t] = "n_share"
  /\ \E shared \in {"true", "false", "throws"} :
       log' = [log EXCEPT ![t] = @ \o (IF shared = "true"
                                         THEN <<"share", "shared">>
                                         ELSE <<"share">>)]
  /\ Goto(t, "done")
  /\ outcome' = "backupSaved"
  /\ UNCHANGED <<resolverVars, appVars, stampVars>>
  /\ UNCHANGED <<fs, bk, now, bkVars, uiVars, restoreVars, made, meta, ops,
                 faults>>

backupNow(t) == n_meta(t) \/ n_drive(t) \/ n_upload(t) \/ n_share(t)

\* -------------------------------------------------- handleRestoreBackup
tempRestore == Append(CANONICAL_DB_PATH, ".restore.tmp")
rollbackTmp == Append(targetPath, ".rollback.tmp")
driveTmp == Append(CANONICAL_DB_PATH, ".download.tmp")

\* The Restore button can be pressed: it is rendered and enabled while
\* isRestoring is false, whatever handleBackupNow is doing.
tapRestore ==
  /\ pc["R"] = "idle"
  /\ ~isRestoring

\* handleRestoreBackup is called: setIsRestoring(true);
\* let preRestoreSnapshot = null
startRestore ==
  /\ tapRestore
  /\ ops < MaxOps
  /\ ops' = ops + 1
  /\ isRestoring' = TRUE
  /\ preRestoreSnapshot' = NoSnapshot
  /\ DB_PATH' = NoPath
  /\ CANONICAL_DB_PATH' = NoPath
  /\ targetPath' = NoPath
  /\ uri' = "none"
  /\ picked' = 0
  /\ fs0' = fs
  /\ log' = [log EXCEPT !["R"] = << >>]
  /\ outcome' = "none"
  /\ Goto("R", "r_release")
  /\ UNCHANGED <<resolverVars, appVars, stampVars>>
  /\ UNCHANGED <<fs, bk, now, bkVars, dbOpen, made, meta, faults>>

\* handleRestoreBackup with one handler running at a time
handleRestoreBackup ==
  /\ \A t \in Tasks : pc[t] = "idle"
  /\ startRestore

\* mutant: no pre-restore snapshot is taken
r_release_noSnapshot ==
  /\ pc["R"] = "r_release"
  /\ Emit("R", "release")
  /\ Goto("R", "r_checkpoint")
  /\ UNCHANGED <<resolverVars, appVars, stampVars>>
  /\ UNCHANGED <<fs, bk, now, bkVars, uiVars, restoreVars, outcome,
                 made, meta, ops, faults>>

\* closeDatabaseHandlesForBackup() of the core DB module, then the
\* pre-restore snapshot: backupDatabase()
r_release ==
  /\ pc["R"] = "r_release"
  /\ Emit("R", "release")
  /\ Goto("R", "bk_resolve")
  /\ UNCHANGED <<resolverVars, appVars, stampVars>>
  /\ UNCHANGED <<fs, bk, now, bkVars, uiVars, restoreVars, outcome,
                 made, meta, ops, faults>>

\* db.execAsync("PRAGMA wal_checkpoint(TRUNCATE);"), failure ignored
r_checkpoint ==
  /\ pc["R"] = "r_checkpoint"
  /\ Emit("R", "uiCheckpoint")
  /\ Goto("R", "r_close")
  /\ UNCHANGED <<resolverVars, appVars, stampVars>>
  /\ UNCHANGED <<fs, bk, now, bkVars, uiVars, restoreVars, outcome,
                 made, meta, ops, faults>>

\* db.closeAsync(), failure ignored
r_close ==
  /\ pc["R"] = "r_close"
  /\ \E ok \in Oks :
       /\ Fault(ok)
       /\ dbOpen' = IF ok THEN FALSE ELSE dbOpen
  /\ Emit("R", "uiClose")
  /\ Goto("R", "r_resolve")
  /\ UNCHANGED <<resolverVars, appVars, stampVars>>
  /\ UNCHANGED <<fs, bk, now, bkVars, isRestoring, restoreVars, outcome,
                 made, meta, ops>>

\* DB_PATH = await resolveDatabasePath(); CANONICAL_DB_PATH
r_resolve ==
  /\ pc["R"] = "r_resolve"
  /\ IF resolveDatabasePath(fs) = {}
       THEN /\ Goto("R", "r_catch")
            /\ UNCHANGED <<DB_PATH, CANONICAL_DB_PATH>>
       ELSE /\ \E p \in resolveDatabasePath(fs) :
                 /\ DB_PATH' = p
                 /\ CANONICAL_DB_PATH' = WithDb(p)
            /\ Goto("R", "r_signedIn")
  /\ UNCHANGED <<resolverVars, appVars, stampVars>>
  /\ UNCHANGED <<fs, bk, now, bkVars, log, uiVars, preRestoreSnapshot, uri,
                 targetPath, fs0, picked, outcome, made, meta, ops, faults>>

\* const signedIn = await isSignedInToGoogleDrive()
r_signedIn ==
  /\ pc["R"] = "r_signedIn"
  /\ \E r \in {"yes", "no"} \cup Throws :
       /\ Fault(r # "throws")
       /\ Goto("R", IF r = "yes" THEN "r_driveDownload"
                    ELSE IF r = "no" THEN "r_pick" ELSE "r_catch")
  /\ UNCHANGED <<resolverVars, appVars, stampVars>>
  /\ UNCHANGED <<fs, bk, now, bkVars, log, uiVars, restoreVars, outcome,
                 made, meta, ops>>

\* restoreLatestBackupFromGoogleDrive(CANONICAL_DB_PATH), first half: the
\* latest Drive backup is downloaded into a temp file; false when there is
\* nothing to restore
r_driveDownload ==
  /\ pc["R"] = "r_driveDownload"
  /\ \E r \in {"ok", "false"} \cup Throws :
       /\ Fault(r # "throws")
       /\ IF r = "ok"
         THEN /\ fs' = WriteFile(fs, driveTmp, F_drive)
              /\ Emit("R", "stage")
              /\ Goto("R", "r_driveSwap")
         ELSE /\ Goto("R", IF r = "false" THEN "r_pick" ELSE "r_catch")
              /\ log' = [log EXCEPT !["R"] =
                            IF r = "throws" THEN Append(@, "stageFailed") ELSE @]
              /\ UNCHANGED fs
  /\ UNCHANGED <<resolverVars, appVars, stampVars>>
  /\ UNCHANGED <<bk, now, bkVars, uiVars, restoreVars, outcome,
                 made, meta, ops>>

\* second half: the downloaded file replaces the target
r_driveSwap ==
  /\ pc["R"] = "r_driveSwap"
  /\ \E ok \in Oks :
       /\ Fault(ok)
       /\ IF ok
         THEN /\ fs' = RemoveFile(WriteFile(fs, CANONICAL_DB_PATH, fs[driveTmp]),
                                  driveTmp)
              /\ Emit("R", "swap")
              /\ Goto("R", "r_driveCleanup")
         ELSE /\ fs' = RemoveFile(fs, driveTmp)
              /\ Goto("R", "r_catch")
              /\ UNCHANGED log
  /\ UNCHANGED <<resolverVars, appVars, stampVars>>
  /\ UNCHANGED <<bk, now, bkVars, uiVars, restoreVars, outcome,
                 made, meta, ops>>

\* files that the deleteAsync calls of a cleanup step address
DriveCleanupTargets ==
  (IF CANONICAL_DB_PATH # DB_PATH THEN {DB_PATH} ELSE {})
  \cup {Append(p, s) : p \in {CANONICAL_DB_PATH, DB_PATH}, s \in SidecarSuffixes}

LocalCleanupTargets ==
  (IF CANONICAL_DB_PATH # DB_PATH THEN {DB_PATH} ELSE {})
  \cup {Append(CANONICAL_DB_PATH, s) : s \in SidecarSuffixes}

\* every deleteAsync is wrapped in its own try/catch: any of them may fail
Cleanup(targets) ==
  \E kept \in SUBSET (targets \cap DOMAIN fs) :
     /\ faults' = faults + Cardinality(kept)
     /\ faults' <= MaxFaults
     /\ fs' = RemoveFiles(fs, targets \ kept)

r_driveCleanup ==
  /\ pc["R"] = "r_driveCleanup"
  /\ Cleanup(DriveCleanupTargets)
  /\ Emit("R", "swapDone")
  /\ Goto("R", "r_reload")
  /\ UNCHANGED <<resolverVars, appVars, stampVars>>
  /\ UNCHANGED <<bk, now, bkVars, uiVars, restoreVars, outcome,
                 made, meta, ops>>

\* DocumentPicker.getDocumentAsync: cancelled, failed, or a document whose
\* cache copy is at uri
r_pick ==
  /\ pc["R"] = "r_pick"
  /\ \/ /\ Goto("R", "done")
        /\ outcome' = "cancelled"
        /\ UNCHANGED <<uri, picked, faults>>
     \/ /\ faults < MaxFaults
        /\ faults' = faults + 1
        /\ Goto("R", "r_catch")
        /\ UNCHANGED <<uri, picked, outcome>>
     \/ /\ \E ts \in {x \in 1..MaxClock : <<x, "db">> \in DOMAIN bk} :
             /\ uri' = bk[<<ts, "db">>]
             /\ picked' = ts
        /\ Goto("R", "r_stage")
        /\ UNCHANGED <<outcome, faults>>
     \/ /\ uri' = F_ext
        /\ picked' = 0
        /\ Goto("R", "r_stage")
        /\ UNCHANGED <<outcome, faults>>
  /\ UNCHANGED <<resolverVars, appVars, stampVars>>
  /\ UNCHANGED <<fs, bk, now, bkVars, log, uiVars, preRestoreSnapshot,
                 DB_PATH, CANONICAL_DB_PATH, targetPath, fs0, made, meta, ops>>

\* mutant: the existing database is removed before the inbound file is
\* staged
r_stage_deleteFirst ==
  /\ pc["R"] = "r_stage"
  /\ \E ok \in Oks :
       /\ Fault(ok)
       /\ IF ok
         THEN /\ fs' = WriteFile(RemoveFile(fs, CANONICAL_DB_PATH),
                                 tempRestore, uri)
              /\ Emit("R", "stage")
              /\ Goto("R", "r_move")
         ELSE /\ Emit("R", "stageFailed")
              /\ Goto("R", "r_catch")
              /\ fs' = RemoveFile(fs, CANONICAL_DB_PATH)
  /\ UNCHANGED <<resolverVars, appVars, stampVars>>
  /\ UNCHANGED <<bk, now, bkVars, uiVars, restoreVars, outcome,
                 made, meta, ops>>

\* mutant: the picked file is copied straight onto the canonical path
r_stage_direct ==
  /\ pc["R"] = "r_stage"
  /\ \E ok \in Oks :
       /\ Fault(ok)
       /\ IF ok
         THEN /\ fs' = WriteFile(WriteFile(fs, CANONICAL_DB_PATH, uri),
                                 tempRestore, uri)
              /\ Emit("R", "stage")
              /\ Goto("R", "r_move")
         ELSE /\ Emit("R", "stageFailed")
              /\ Goto("R", "r_catch")
              /\ UNCHANGED fs
  /\ UNCHANGED <<resolverVars, appVars, stampVars>>
  /\ UNCHANGED <<bk, now, bkVars, uiVars, restoreVars, outcome,
                 made, meta, ops>>

\* copyAsync({ from: uri, to: tempRestore })
r_stage ==
  /\ pc["R"] = "r_stage"
  /\ \E ok \in Oks :
       /\ Fault(ok)
       /\ IF ok
         THEN /\ fs' = WriteFile(fs, tempRestore, uri)
              /\ Emit("R", "stage")
              /\ Goto("R", "r_move")
         ELSE /\ Emit("R", "stageFailed")
              /\ Goto("R", "r_catch")
              /\ UNCHANGED fs
  /\ UNCHANGED <<resolverVars, appVars, stampVars>>
  /\ UNCHANGED <<bk, now, bkVars, uiVars, restoreVars, outcome,
                 made, meta, ops>>

\* mutant: the temp file is moved onto the resolved path, not the .db path
r_move_toDbPath ==
  /\ pc["R"] = "r_move"
  /\ \E ok \in Oks :
       /\ Fault(ok)
       /\ IF ok
         THEN /\ fs' = RemoveFile(WriteFile(fs, DB_PATH, fs[tempRestore]),
                                  tempRestore)
              /\ Emit("R", "swap")
              /\ Goto("R", "r_cleanup")
         ELSE /\ Goto("R", "r_fallbackCopy")
              /\ UNCHANGED <<fs, log>>
  /\ UNCHANGED <<resolverVars, appVars, stampVars>>
  /\ UNCHANGED <<bk, now, bkVars, uiVars, restoreVars, outcome,
                 made, meta, ops>>

\* moveAsync({ from: tempRestore, to: CANONICAL_DB_PATH })
r_move ==
  /\ pc["R"] = "r_move"
  /\ \E ok \in Oks :
       /\ Fault(ok)
       /\ IF ok
         THEN /\ fs' = RemoveFile(WriteFile(fs, CANONICAL_DB_PATH,
                                            fs[tempRestore]), tempRestore)
              /\ Emit("R", "swap")
              /\ Goto("R", "r_cleanup")
         ELSE /\ Goto("R", "r_fallbackCopy")
              /\ UNCHANGED <<fs, log>>
  /\ UNCHANGED <<resolverVars, appVars, stampVars>>
  /\ UNCHANGED <<bk, now, bkVars, uiVars, restoreVars, outcome,
                 made, meta, ops>>

\* fallback: copyAsync({ from: tempRestore, to: CANONICAL_DB_PATH })
r_fallbackCopy ==
  /\ pc["R"] = "r_fallbackCopy"
  /\ \E ok \in Oks :
       /\ Fault(ok)
       /\ IF ok
         THEN /\ fs' = WriteFile(fs, CANONICAL_DB_PATH, fs[tempRestore])
              /\ Emit("R", "swap")
              /\ Goto("R", "r_fallbackDelete")
         ELSE /\ Goto("R", "r_catch")
              /\ UNCHANGED <<fs, log>>
  /\ UNCHANGED <<resolverVars, appVars, stampVars>>
  /\ UNCHANGED <<bk, now, bkVars, uiVars, restoreVars, outcome,
                 made, meta, ops>>

\* fallback: deleteAsync(tempRestore, { idempotent: true })
r_fallbackDelete ==
  /\ pc["R"] = "r_fallbackDelete"
  /\ \E ok \in Oks :
       /\ Fault(ok)
       /\ IF ok
         THEN /\ fs' = RemoveFile(fs, tempRestore)
              /\ Goto("R", "r_cleanup")
         ELSE /\ Goto("R", "r_catch")
              /\ UNCHANGED fs
  /\ UNCHANGED <<resolverVars, appVars, stampVars>>
  /\ UNCHANGED <<bk, now, bkVars, log, uiVars, restoreVars, outcome,
                 made, meta, ops>>

\* mutant: the reload is requested before the legacy file and the
\* sidecars are deleted
r_cleanup_reloadFirst ==
  /\ pc["R"] = "r_cleanup"
  /\ Goto("R", "r_reload")
  /\ UNCHANGED <<resolverVars, appVars, stampVars>>
  /\ UNCHANGED <<fs, bk, now, bkVars, log, uiVars, restoreVars, outcome,
                 made, meta, ops, faults>>

\* delete the bare file if DB_PATH is not the canonical path, and the
\* canonical sidecars
r_cleanup ==
  /\ pc["R"] = "r_cleanup"
  /\ Cleanup(LocalCleanupTargets)
  /\ Emit("R", "swapDone")
  /\ Goto("R", "r_reload")
  /\ UNCHANGED <<resolverVars, appVars, stampVars>>
  /\ UNCHANGED <<bk, now, bkVars, uiVars, restoreVars, outcome,
                 made, meta, ops>>

\* reloadApp(): the app reloads and the screen state is rebuilt, or the
\* call throws into the handler's catch
r_reload ==
  /\ pc["R"] = "r_reload"
  /\ Emit("R", "reload")
  /\ \E ok \in Oks :
       /\ Fault(ok)
       /\ IF ok
         THEN /\ isRestoring' = FALSE
              /\ dbOpen' = TRUE
              /\ outcome' = "restored"
              /\ Goto("R", "done")
         ELSE /\ Goto("R", "r_catch")
              /\ UNCHANGED <<uiVars, outcome>>
  /\ UNCHANGED <<resolverVars, appVars, stampVars>>
  /\ UNCHANGED <<fs, bk, now, bkVars, restoreVars, made, meta, ops>>

\* mutant: without a snapshot the catch block removes the file that the
\* failed restore left on the canonical path
r_catch_discard ==
  /\ pc["R"] = "r_catch"
  /\ Emit("R", "catch")
  /\ IF preRestoreSnapshot # NoSnapshot
       THEN /\ Goto("R", "r_rbResolve")
            /\ UNCHANGED <<isRestoring, outcome, fs>>
       ELSE /\ outcome' = "failed"
            /\ isRestoring' = FALSE
            /\ fs' = RemoveFile(fs, CANONICAL)
            /\ Goto("R", "done")
  /\ UNCHANGED <<resolverVars, appVars, stampVars>>
  /\ UNCHANGED <<bk, now, bkVars, dbOpen, restoreVars, made, meta, ops, faults>>

\* mutant: the catch block never rolls back
r_catch_noRollback ==
  /\ pc["R"] = "r_catch"
  /\ Emit("R", "catch")
  /\ outcome' = "failed"
  /\ isRestoring' = FALSE
  /\ Goto("R", "done")
  /\ UNCHANGED <<resolverVars, appVars, stampVars>>
  /\ UNCHANGED <<fs, bk, now, bkVars, dbOpen, restoreVars, made, meta, ops,
                 faults>>

\* catch (e): roll back if a pre-restore snapshot is remembered, else
\* report the failure and clear the busy flag
r_catch ==
  /\ pc["R"] = "r_catch"
  /\ Emit("R", "catch")
  /\ IF preRestoreSnapshot # NoSnapshot
       THEN /\ Goto("R", "r_rbResolve")
            /\ UNCHANGED <<isRestoring, outcome>>
       ELSE /\ outcome' = "failed"
            /\ isRestoring' = FALSE
            /\ Goto("R", "done")
  /\ UNCHANGED <<resolverVars, appVars, stampVars>>
  /\ UNCHANGED <<fs, bk, now, bkVars, dbOpen, restoreVars, made, meta, ops, faults>>

\* rollback failed: alert, setIsRestoring(false)
RollbackFails ==
  /\ outcome' = "rollbackFailed"
  /\ isRestoring' = FALSE
  /\ Goto("R", "done")

\* targetPath: resolveDatabasePath() with the .db suffix, or the canonical
\* path when that throws
r_rbResolve ==
  /\ pc["R"] = "r_rbResolve"
  /\ IF resolveDatabasePath(fs) = {}
       THEN targetPath' = CANONICAL
       ELSE \E p \in resolveDatabasePath(fs) : targetPath' = WithDb(p)
  /\ Goto("R", "r_rbStage")
  /\ UNCHANGED <<resolverVars, appVars, stampVars>>
  /\ UNCHANGED <<fs, bk, now, bkVars, log, uiVars, preRestoreSnapshot,
                 DB_PATH, CANONICAL_DB_PATH, uri, fs0, picked, outcome,
                 made, meta, ops, faults>>

\* copyAsync({ from: preRestoreSnapshot, to: tmp })
r_rbStage ==
  /\ pc["R"] = "r_rbStage"
  /\ \E ok \in Oks :
       /\ Fault(ok)
       /\ IF ok /\ Exists(bk, <<preRestoreSnapshot, "db">>)
         THEN /\ fs' = WriteFile(fs, rollbackTmp,
                                 bk[<<preRestoreSnapshot, "db">>])
              /\ Goto("R", "r_rbMove")
              /\ UNCHANGED <<uiVars, outcome>>
         ELSE /\ RollbackFails
              /\ UNCHANGED <<fs, dbOpen>>
  /\ UNCHANGED <<resolverVars, appVars, stampVars>>
  /\ UNCHANGED <<bk, now, bkVars, log, restoreVars, made, meta, ops>>

\* moveAsync({ from: tmp, to: targetPath })
r_rbMove ==
  /\ pc["R"] = "r_rbMove"
  /\ \E ok \in Oks :
       /\ Fault(ok)
       /\ IF ok
         THEN /\ fs' = RemoveFile(WriteFile(fs, targetPath, fs[rollbackTmp]),
                                  rollbackTmp)
              /\ Emit("R", "rollback")
              /\ Goto("R", "r_rbReload")
         ELSE /\ Goto("R", "r_rbCopy")
              /\ UNCHANGED <<fs, log>>
  /\ UNCHANGED <<resolverVars, appVars, stampVars>>
  /\ UNCHANGED <<bk, now, bkVars, uiVars, restoreVars, outcome,
                 made, meta, ops>>

\* fallback: copyAsync({ from: tmp, to: targetPath })
r_rbCopy ==
  /\ pc["R"] = "r_rbCopy"
  /\ \E ok \in Oks :
       /\ Fault(ok)
       /\ IF ok
         THEN /\ fs' = WriteFile(fs, targetPath, fs[rollbackTmp])
              /\ Emit("R", "rollback")
              /\ Goto("R", "r_rbDelete")
              /\ UNCHANGED <<uiVars, outcome>>
         ELSE /\ RollbackFails
              /\ UNCHANGED <<fs, log, dbOpen>>
  /\ UNCHANGED <<resolverVars, appVars, stampVars>>
  /\ UNCHANGED <<bk, now, bkVars, restoreVars, made, meta, ops>>

\* fallback: deleteAsync(tmp, { idempotent: true })
r_rbDelete ==
  /\ pc["R"] = "r_rbDelete"
  /\ \E ok \in Oks :
       /\ Fault(ok)
       /\ IF ok
         THEN /\ fs' = RemoveFile(fs, rollbackTmp)
              /\ Goto("R", "r_rbReload")
              /\ UNCHANGED <<uiVars, outcome>>
         ELSE /\ RollbackFails
              /\ UNCHANGED <<fs, dbOpen>>
  /\ UNCHANGED <<resolverVars, appVars, stampVars>>
  /\ UNCHANGED <<bk, now, bkVars, log, restoreVars, made, meta, ops>>

\* reloadApp() after the rollback, then the alert 'Restore failed but
\* pre-restore snapshot was restored.'
r_rbReload ==
  /\ pc["R"] = "r_rbReload"
  /\ Emit("R", "reload")
  /\ \E ok \in Oks :
       /\ Fault(ok)
       /\ IF ok
         THEN /\ outcome' = "rolledBack"
              /\ isRestoring' = FALSE
              /\ dbOpen' = TRUE
              /\ Goto("R", "done")
         ELSE /\ RollbackFails
              /\ UNCHANGED dbOpen
  /\ UNCHANGED <<resolverVars, appVars, stampVars>>
  /\ UNCHANGED <<fs, bk, now, bkVars, restoreVars, made, meta, ops>>

\* the handler call of task t has finished: its locals are gone
Return(t) ==
  /\ pc[t] = "done"
  /\ Goto(t, "idle")
  /\ log' = [log EXCEPT ![t] = << >>]
  /\ dbPath' = [dbPath EXCEPT ![t] = NoPath]
  /\ dest' = [dest EXCEPT ![t] = NoSnapshot]
  /\ src' = [src EXCEPT ![t] = "none"]
  /\ srcPath' = [srcPath EXCEPT ![t] = NoPath]
  /\ outcome' = "none"
  /\ IF t = "R"
       THEN /\ preRestoreSnapshot' = NoSnapshot
            /\ DB_PATH' = NoPath
            /\ CANONICAL_DB_PATH' = NoPath
            /\ targetPath' = NoPath
            /\ uri' = "none"
            /\ picked' = 0
            /\ fs0' = << >>
       ELSE UNCHANGED restoreVars
  /\ UNCHANGED <<resolverVars, appVars, stampVars>>
  /\ UNCHANGED <<fs, bk, now, uiVars, made, meta, ops, faults>>

restoreSteps ==
  \/ r_release \/ r_checkpoint \/ r_close \/ r_resolve \/ r_signedIn
  \/ r_driveDownload \/ r_driveSwap \/ r_driveCleanup \/ r_pick \/ r_stage
  \/ r_move \/ r_fallbackCopy \/ r_fallbackDelete \/ r_cleanup \/ r_reload
  \/ r_catch \/ r_rbResolve \/ r_rbStage \/ r_rbMove \/ r_rbCopy
  \/ r_rbDelete \/ r_rbReload

Next ==
  \/ Tick
  \/ handleBackupNow
  \/ handleRestoreBackup
  \/ backupDatabase("B")
  \/ backupDatabase("R")
  \/ backupNow("B")
  \/ restoreSteps
  \/ Return("B")
  \/ Return("R")

Spec == Init /\ [][Next]_vars

\* ------------------------------- the resolver on any directory content
\* names that can be found in the SQLite directory: the two candidates, a
\* sidecar, a file with a non-standard name that starts with the prefix
\* (debitmanager-old) and a file that does not
Names == {CANONICAL, BARE, <<".db", "-wal">>, <<"-old">>, <<"other">>}

EntryKinds(p) ==
  IF p = CANONICAL THEN {F_db, Dir}
  ELSE IF p = BARE THEN {F_bare, Dir}
  ELSE IF p = <<".db", "-wal">> THEN {F_wal}
  ELSE {F_ext}

Directories ==
  UNION {{f \in [S -> {F_db, F_bare, F_wal, F_ext, Dir}] :
            \A p \in S : f[p] \in EntryKinds(p)} : S \in SUBSET Names}

InitAnyDirectory ==
  /\ fs \in Directories
  /\ InitRest

\* one call of resolveDatabasePath() on the initial directory; the listing
\* is read only when the candidate loop found nothing
callResolveDatabasePath ==
  /\ \A t \in Tasks : pc[t] = "idle"
  /\ ops = 0
  /\ \E probes \in SUBSET {DB_CANDIDATES[i] : i \in 1..Len(DB_CANDIDATES)},
        lt \in BOOLEAN, ls \in Listings(fs) :
       LET listed == probeCandidates(fs, probes, 1) = NotFound
       IN call' = [probeThrows |-> probes,
                   listing |-> IF listed /\ ~lt THEN ls ELSE << >>,
                   listThrows |-> (listed /\ lt),
                   resolved |-> resolveCall(fs, probes, ls, lt),
                   resolvedOn |-> fs]
  /\ UNCHANGED <<appVars, stampVars>>
  /\ UNCHANGED <<fs, bk, now, pc, bkVars, log, uiVars, restoreVars, outcome,
                 made, meta, ops, faults>>

\* a behaviour either calls the resolver on the directory or runs backups
\* on it
NextResolver ==
  \/ callResolveDatabasePath
  \/ Tick
  \/ (resolved = NoPath /\ handleBackupNow)
  \/ backupDatabase("B")
  \/ backupNow("B")
  \/ Return("B")

SpecResolver == InitAnyDirectory /\ [][NextResolver]_vars

\* ------------------------------------------- interleaved handler calls
\* The handlers are async functions: while one awaits, the user can press
\* whatever button the screen still offers.
NextAsync ==
  \/ Tick
  \/ startBackupNow("B")
  \/ startRestore
  \/ backupDatabase("B")
  \/ backupDatabase("R")
  \/ backupNow("B")
  \/ restoreSteps
  \/ Return("B")
  \/ Return("R")

SpecAsync == Init /\ [][NextAsync]_vars

\* ------------------------------------------- Backup Now pressed twice
\* handleBackupNow leaves the button enabled while backupNow runs: a
\* second call can start before the first has ended.
NextDoubleTap ==
  \/ Tick
  \/ startBackupNow("B")
  \/ (pc["B"] # "idle" /\ startBackupNow("B2"))
  \/ backupDatabase("B")
  \/ backupDatabase("B2")
  \/ backupNow("B")
  \/ backupNow("B2")
  \/ Return("B")
  \/ Return("B2")

SpecDoubleTap == Init /\ [][NextDoubleTap]_vars

\* ------------------------------------------------- application start
\* everything the backup and restore handlers own
handlerVars == <<bk, now, pc, bkVars, log, uiVars, restoreVars, outcome,
                 made, meta, ops, call, stampVars>>

MoveFile(f, from, to) == RemoveFile(WriteFile(f, to, f[from]), from)

\* the migration effect goes on to the next sidecar, or to its finally
NextSuffix(r) ==
  IF r.suffix < Len(Suffixes)
    THEN [r EXCEPT !.pc = "m_sideProbe", !.suffix = @ + 1]
    ELSE [r EXCEPT !.pc = "m_finally"]

sideFrom == Append(BARE, Suffixes[root.suffix])
sideTo == Append(CANONICAL, Suffixes[root.suffix])

\* bareInfo = await getInfoAsync(bare).catch(() => ({ exists: false }))
m_probeBare ==
  /\ root.pc = "m_probeBare"
  /\ \E ok \in Oks :
       /\ Fault(ok)
       /\ root' = [root EXCEPT !.bareInfo = ok /\ Exists(fs, BARE),
                               !.pc = "m_probeCanonical"]
  /\ UNCHANGED <<fs, handlerVars, native, reqs, nowMs>>

\* canonicalInfo = await getInfoAsync(canonical).catch(...);
\* if (bareInfo.exists && !canonicalInfo.exists) migrate, else log
m_probeCanonical ==
  /\ root.pc = "m_probeCanonical"
  /\ \E ok \in Oks :
       /\ Fault(ok)
       /\ LET info == ok /\ Exists(fs, CANONICAL)
          IN root' = [root EXCEPT
                        !.canonicalInfo = info,
                        !.suffix = 1,
                        !.pc = IF root.bareInfo /\ ~info
                                 THEN "m_move" ELSE "m_finally"]
  /\ UNCHANGED <<fs, handlerVars, native, reqs, nowMs>>

\* await moveAsync({ from: bare, to: canonical })
m_move ==
  /\ root.pc = "m_move"
  /\ \E ok \in Oks :
       /\ Fault(ok)
       /\ IF ok
            THEN /\ fs' = MoveFile(fs, BARE, CANONICAL)
                 /\ root' = [root EXCEPT !.pc = "m_sideProbe"]
            ELSE /\ root' = [root EXCEPT !.pc = "m_copy"]
                 /\ UNCHANGED fs
  /\ UNCHANGED <<handlerVars, native, reqs, nowMs>>

\* fallback: await copyAsync({ from: bare, to: canonical })
m_copy ==
  /\ root.pc = "m_copy"
  /\ \E ok \in Oks :
       /\ Fault(ok)
       /\ IF ok
            THEN /\ fs' = WriteFile(fs, CANONICAL, fs[BARE])
                 /\ root' = [root EXCEPT !.pc = "m_delete"]
            ELSE /\ root' = [root EXCEPT !.pc = "m_sideProbe"]
                 /\ UNCHANGED fs
  /\ UNCHANGED <<handlerVars, native, reqs, nowMs>>

\* fallback: await deleteAsync(bare, { idempotent: true })
m_delete ==
  /\ root.pc = "m_delete"
  /\ \E ok \in Oks :
       /\ Fault(ok)
       /\ fs' = IF ok THEN RemoveFile(fs, BARE) ELSE fs
  /\ root' = [root EXCEPT !.pc = "m_sideProbe"]
  /\ UNCHANGED <<handlerVars, native, reqs, nowMs>>

\* info = await getInfoAsync(from).catch(() => ({ exists: false }))
m_sideProbe ==
  /\ root.pc = "m_sideProbe"
  /\ \E ok \in Oks :
       /\ Fault(ok)
       /\ root' = IF ok /\ Exists(fs, sideFrom)
                    THEN [root EXCEPT !.pc = "m_sideMove"]
                    ELSE NextSuffix(root)
  /\ UNCHANGED <<fs, handlerVars, native, reqs, nowMs>>

\* await moveAsync({ from, to })
m_sideMove ==
  /\ root.pc = "m_sideMove"
  /\ \E ok \in Oks :
       /\ Fault(ok)
       /\ IF ok
            THEN /\ fs' = MoveFile(fs, sideFrom, sideTo)
                 /\ root' = NextSuffix(root)
            ELSE /\ root' = [root EXCEPT !.pc = "m_sideCopy"]
                 /\ UNCHANGED fs
  /\ UNCHANGED <<handlerVars, native, reqs, nowMs>>

\* fallback: await copyAsync({ from, to })
m_sideCopy ==
  /\ root.pc = "m_sideCopy"
  /\ \E ok \in Oks :
       /\ Fault(ok)
       /\ IF ok
            THEN /\ fs' = WriteFile(fs, sideTo, fs[sideFrom])
                 /\ root' = [root EXCEPT !.pc = "m_sideDelete"]
            ELSE /\ root' = NextSuffix(root)
                 /\ UNCHANGED fs
  /\ UNCHANGED <<handlerVars, native, reqs, nowMs>>

\* fallback: await deleteAsync(from, { idempotent: true })
m_sideDelete ==
  /\ root.pc = "m_sideDelete"
  /\ \E ok \in Oks :
       /\ Fault(ok)
       /\ fs' = IF ok THEN RemoveFile(fs, sideFrom) ELSE fs
  /\ root' = NextSuffix(root)
  /\ UNCHANGED <<handlerVars, native, reqs, nowMs>>

\* finally { if (mounted) setMigrationDone(true) }
m_finally ==
  /\ root.pc = "m_finally"
  /\ root' = [root EXCEPT !.pc = "done", !.migrationDone = TRUE]
  /\ UNCHANGED <<fs, handlerVars, native, reqs, nowMs, faults>>

startupMigration ==
  \/ m_probeBare \/ m_probeCanonical \/ m_move \/ m_copy \/ m_delete
  \/ m_sideProbe \/ m_sideMove \/ m_sideCopy \/ m_sideDelete \/ m_finally

\* ---------------------------------------------------- SQLite provider
\* mutant: the provider is rendered before the migration has ended
p_render_ungated ==
  /\ root.provider = "none" \/ root.providerKey # dbKey
  /\ root' = [root EXCEPT !.provider = "opening", !.providerKey = dbKey]
  /\ UNCHANGED <<fs, handlerVars, native, reqs, nowMs, faults>>

\* RootLayout renders <ProviderWithLogs key={dbKey}> once migrationDone is
\* set; a new key discards the instance and creates one, which suspends
\* while the database opens
p_render ==
  /\ migrationDone
  /\ root.provider = "none" \/ root.providerKey # dbKey
  /\ root' = [root EXCEPT !.provider = "opening", !.providerKey = dbKey]
  /\ UNCHANGED <<fs, handlerVars, native, reqs, nowMs, faults>>

\* onInit: await migrateDbIfNeeded(db); a throw ends onInit
p_migrate ==
  /\ root.provider = "opening"
  /\ \E ok \in Oks :
       /\ Fault(ok)
       /\ root' = [root EXCEPT !.provider = IF ok THEN "migrated"
                                            ELSE "failed"]
  /\ UNCHANGED <<fs, handlerVars, native, reqs, nowMs>>

\* the calls that had invoked the callback see an acknowledgment
Acknowledge(q) ==
  [i \in DOMAIN q |->
     IF q[i].invoked > 0 THEN [q[i] EXCEPT !.acked = TRUE] ELSE q[i]]

\* mutant: the acknowledgment does not wait for migrateDbIfNeeded
p_notify_early ==
  /\ root.provider \in {"opening", "migrated"}
  /\ root' = [root EXCEPT !.provider = "notified", !.acks = @ + 1]
  /\ reqs' = Acknowledge(reqs)
  /\ UNCHANGED <<fs, handlerVars, native, nowMs, faults>>

\* onInit, after the migration: notifyProviderRemounted(true)
p_notify ==
  /\ root.provider = "migrated"
  /\ root' = [root EXCEPT !.provider = "notified", !.acks = @ + 1]
  /\ reqs' = Acknowledge(reqs)
  /\ UNCHANGED <<fs, handlerVars, native, nowMs, faults>>

\* the provider commits; the mount effect of ProviderWithLogs registers
\* its own callback
p_commit ==
  /\ root.provider = "notified"
  /\ root' = [root EXCEPT !.provider = "mounted"]
  /\ native' = registerSQLiteProviderRemount(native, LogCallback)
  /\ UNCHANGED <<fs, handlerVars, reqs, nowMs, faults>>

ProviderWithLogs == p_render \/ p_migrate \/ p_notify \/ p_commit

\* ------------------------------------------------ refreshSQLiteProvider
\* a call of refreshSQLiteProvider made at instant at
Request(at, accepted) ==
  [at |-> at, accepted |-> accepted,
   pc |-> IF accepted THEN "release" ELSE "done",
   result |-> IF accepted THEN "pending" ELSE "false",
   opens |-> 0,         \* calls of openAsync it made
   attempts |-> << >>,  \* the candidates it tried, and how that went
   invoked |-> 0,       \* invocations of the remount callback
   registered |-> FALSE, \* a callback was registered when it was due
   bumped |-> FALSE,    \* an invocation bumped the provider key
   acked |-> FALSE,     \* notifyProviderRemounted(true) came afterwards
   started |-> root.provider = "mounted"]

\* the callers are the data-access functions of the screens, which
\* RootLayout renders once migrationDone is set
CanRequest ==
  /\ migrationDone
  /\ Len(reqs) < MaxRequests

\* if (now - lastNativeRefresh < 1000)
Debounced(t) == t - lastNativeRefresh < DEBOUNCE_MS

\* mutant: a dropped call restarts the window
callRefreshSQLiteProvider_extend ==
  /\ CanRequest
  /\ reqs' = Append(reqs, Request(nowMs, ~Debounced(nowMs)))
  /\ native' = [native EXCEPT !.lastNativeRefresh = nowMs]
  /\ UNCHANGED <<fs, handlerVars, root, nowMs, faults>>

\* refreshSQLiteProvider() up to its first await: const now = Date.now();
\* the debounce test; lastNativeRefresh = now
callRefreshSQLiteProvider ==
  /\ CanRequest
  /\ reqs' = Append(reqs, Request(nowMs, ~Debounced(nowMs)))
  /\ native' = IF Debounced(nowMs) THEN native
               ELSE [native EXCEPT !.lastNativeRefresh = nowMs]
  /\ UNCHANGED <<fs, handlerVars, root, nowMs, faults>>

\* const expoSqlite = require('expo-sqlite'); a throw leaves the try block
q_release ==
  \E i \in DOMAIN reqs :
  /\ reqs[i].pc = "release"
  /\ \E ok \in Oks :
       /\ Fault(ok)
       /\ reqs' = [reqs EXCEPT ![i].pc = IF ok THEN "attempt" ELSE "catch"]
  /\ UNCHANGED <<fs, handlerVars, root, native, nowMs>>

\* how one candidate's attempt can end: closed, or a throw of openAsync,
\* no handle, a throw of the checkpoint or a throw of closeAsync, each
\* caught inside the loop
AttemptFailures == {"open", "handle", "checkpoint", "close"}

\* the request after the attempt for its next candidate
Attempted(q, failed) ==
  LET name == DB_CANDIDATES[Len(q.attempts) + 1]
      after == Append(q.attempts, [name |-> name, failed |-> failed])
  IN [q EXCEPT !.attempts = after,
               !.opens = @ + 1,
               !.pc = IF Len(after) < Len(DB_CANDIDATES)
                        THEN "attempt" ELSE "callback"]

\* mutant: the loop ends at the first candidate whose attempt fails
q_attempt_break ==
  \E i \in DOMAIN reqs :
  /\ reqs[i].pc = "attempt"
  /\ \/ /\ reqs' = [reqs EXCEPT ![i] = Attempted(@, FALSE)]
        /\ UNCHANGED faults
     \/ /\ faults < MaxFaults
        /\ \E failure \in AttemptFailures :
             reqs' = [reqs EXCEPT ![i] = [Attempted(@, TRUE) EXCEPT
                                            !.pc = "callback"]]
        /\ faults' = faults + 1
  /\ UNCHANGED <<fs, handlerVars, root, native, nowMs>>

\* one pass of for (const name of candidates): openAsync(name), the
\* checkpoint, closeAsync; whatever fails, the loop goes on
q_attempt ==
  \E i \in DOMAIN reqs :
  /\ reqs[i].pc = "attempt"
  /\ \/ /\ reqs' = [reqs EXCEPT ![i] = Attempted(@, FALSE)]
        /\ UNCHANGED faults
     \/ /\ faults < MaxFaults
        /\ \E failure \in AttemptFailures :
             reqs' = [reqs EXCEPT ![i] = Attempted(@, TRUE)]
        /\ faults' = faults + 1
  /\ UNCHANGED <<fs, handlerVars, root, native, nowMs>>

\* what one invocation of the registered callback does to RootLayout:
\* refreshDb() is setDbKey(prev => prev + 1)
Invoke(r, cb, returns) ==
  IF cb = RefreshDbCallback /\ returns
    THEN [r EXCEPT !.dbKey = @ + 1] ELSE r

\* the call after the callback, invoked in the try block and, when that
\* invocation threw, once more in the catch block
Finished(q, cb, first, second) ==
  [q EXCEPT !.pc = "done",
            !.registered = TRUE,
            !.invoked = IF first THEN 1 ELSE 2,
            !.bumped = cb = RefreshDbCallback /\ (first \/ second),
            !.result = IF first THEN "true" ELSE "false"]

\* if (providerRemountCallbackNative) providerRemountCallbackNative();
\* return true; a throw of the callback is caught by the outer catch
q_callback ==
  \E i \in DOMAIN reqs :
  /\ reqs[i].pc = "callback"
  /\ LET cb == providerRemountCallbackNative
     IN IF cb = NoCallback
          THEN /\ reqs' = [reqs EXCEPT ![i].pc = "done",
                                       ![i].result = "true"]
               /\ UNCHANGED <<root, faults>>
          ELSE \E first \in Oks, second \in BOOLEAN :
                 /\ Fault(first)
                 /\ reqs' = [reqs EXCEPT
                               ![i] = Finished(@, cb, first, second)]
                 /\ root' = IF first THEN Invoke(root, cb, TRUE)
                            ELSE Invoke(root, cb, second)
  /\ UNCHANGED <<fs, handlerVars, native, nowMs>>

\* catch (e) after a throw before the callback: the callback is invoked
\* inside its own try/catch, return false
q_catch ==
  \E i \in DOMAIN reqs :
  /\ reqs[i].pc = "catch"
  /\ LET cb == providerRemountCallbackNative
     IN IF cb = NoCallback
          THEN /\ reqs' = [reqs EXCEPT ![i].pc = "done",
                                       ![i].result = "false"]
               /\ UNCHANGED root
          ELSE \E returns \in BOOLEAN :
                 /\ reqs' = [reqs EXCEPT
                               ![i].pc = "done",
                               ![i].registered = TRUE,
                               ![i].invoked = 1,
                               ![i].bumped = cb = RefreshDbCallback
                                             /\ returns,
                               ![i].result = "false"]
                 /\ root' = Invoke(root, cb, returns)
  /\ UNCHANGED <<fs, handlerVars, native, nowMs, faults>>

refreshSQLiteProvider ==
  \/ callRefreshSQLiteProvider
  \/ q_release
  \/ q_attempt
  \/ q_callback
  \/ q_catch

\* Date.now() advances; the calls are what reads it
TickMs ==
  /\ 0 < Len(reqs) /\ Len(reqs) < MaxRequests
  /\ nowMs < StartMs + MaxWindows * DEBOUNCE_MS
  /\ nowMs' = nowMs + HalfWindow
  /\ UNCHANGED <<fs, handlerVars, root, native, reqs, faults>>

\* the application has been launched: the module is loaded and RootLayout
\* has committed once, so its effects have run
InitLaunch ==
  /\ \E layout \in Layouts, sidecars \in BOOLEAN :
       /\ (layout = "none" => ~sidecars)
       /\ fs = InitFs(layout, sidecars)
  /\ InitHandlers
  /\ date = Epoch
  /\ localStamp = NoStamp
  /\ root = Launched
  /\ native = registerSQLiteProviderRemount(NativeLoaded, RefreshDbCallback)
  /\ reqs = << >>
  /\ nowMs = StartMs

\* the same with the filename migration at its end; the remount reads no
\* file, the directory is the one of an installed application
InitMigrated ==
  /\ \E sidecars \in BOOLEAN : fs = InitFs("canonical", sidecars)
  /\ InitHandlers
  /\ date = Epoch
  /\ localStamp = NoStamp
  /\ root = [Launched EXCEPT !.pc = "m_finally"]
  /\ native = registerSQLiteProviderRemount(NativeLoaded, RefreshDbCallback)
  /\ reqs = << >>
  /\ nowMs = StartMs

NextRemount ==
  \/ m_finally
  \/ ProviderWithLogs
  \/ refreshSQLiteProvider
  \/ TickMs

SpecRemount == InitMigrated /\ [][NextRemount]_vars

\* ------------------------------------------- the application's life
\* the application is started again: by reloadApp() or by the user
relaunch ==
  /\ \A t \in Tasks : pc[t] = "idle"
  /\ root.pc = "done"
  /\ root.launches < MaxLaunches
  /\ root' = [Launched EXCEPT !.launches = root.launches + 1]
  /\ native' = registerSQLiteProviderRemount(NativeLoaded, RefreshDbCallback)
  /\ UNCHANGED <<fs, handlerVars, reqs, nowMs, faults>>

\* the screens, and with them the buttons of the handlers, exist once
\* the provider is mounted
Mounted == root.provider = "mounted"

NextLifecycle ==
  \/ startupMigration
  \/ ProviderWithLogs
  \/ relaunch
  \/ (Mounted /\ handleBackupNow)
  \/ (Mounted /\ handleRestoreBackup)
  \/ Tick
  \/ backupDatabase("B")
  \/ backupDatabase("R")
  \/ backupNow("B")
  \/ restoreSteps
  \/ Return("B")
  \/ Return("R")

\* launched on a directory that holds one of the two database files
InitOneFile ==
  /\ InitLaunch
  /\ Exists(fs, CANONICAL) # Exists(fs, BARE)

SpecLifecycle == InitOneFile /\ [][NextLifecycle]_vars

\* the filename migration alone, on every content that InitFs gives the
\* directory
SpecMigration == InitLaunch /\ [][startupMigration]_vars

\* ------------------------------------------------ timestamp, applied
\* one call of timestamp(): const d = new Date(); ... return localStamp
callTimestamp ==
  /\ localStamp = NoStamp
  /\ localStamp' = timestamp(date)
  /\ UNCHANGED <<fs, bk, now, pc, bkVars, log, uiVars, restoreVars, outcome,
                 made, meta, ops, faults, call, appVars, date>>

\* the Date is any of Dates
InitTimestamp ==
  /\ fs = InitFs("canonical", FALSE)
  /\ InitHandlers
  /\ root = Started
  /\ native = [NativeLoaded EXCEPT !.providerRemountCallbackNative = LogCallback]
  /\ reqs = << >>
  /\ nowMs = StartMs
  /\ date \in Dates
  /\ localStamp = NoStamp

SpecTimestamp == InitTimestamp /\ [][callTimestamp]_vars

\* ------------------------------------------------------------ properties
HasEvent(t, e) == \E i \in 1..Len(log[t]) : log[t][i] = e

\* every occurrence of event b in the log of t comes after an event of as
After(t, as, b) ==
  \A j \in 1..Len(log[t]) :
     log[t][j] = b => \E i \in 1..(j - 1) : log[t][i] \in as

\* content of the database file that the resolver finds on directory f
ResolvedContent(f) == f[CHOOSE p \in resolveDatabasePath(f) : TRUE]

SameCanonical(f, g) ==
  /\ Exists(f, CANONICAL) = Exists(g, CANONICAL)
  /\ Exists(f, CANONICAL) => f[CANONICAL] = g[CANONICAL]

StagingFailedAfterSnapshot ==
  /\ pc["R"] = "done"
  /\ HasEvent("R", "snapDone")
  /\ HasEvent("R", "stageFailed")

C3_AsClaimed ==
  (pc["R"] = "done" /\ outcome = "restored" /\ Exists(fs0, BARE)) =>
    /\ IsFile(fs, CANONICAL)
    /\ ~Exists(fs, BARE)

\* the inbound content of the running restore
Inbound == IF uri # "none" THEN {uri} ELSE {F_drive}

\* C4: a canonical file that existed when handleRestoreBackup started
\* exists in every later state, with its old content or with the complete
\* inbound content.
C4_NeverMissing ==
  IsFile(fs0, CANONICAL) =>
    /\ IsFile(fs, CANONICAL)
    /\ fs[CANONICAL] \in {fs0[CANONICAL]} \cup Inbound

C4_Witness ==
  /\ pc["R"] = "r_cleanup"
  /\ IsFile(fs0, CANONICAL)
  /\ fs[CANONICAL] = uri
  /\ uri # fs0[CANONICAL]

StagingSwapPcs ==
  {"r_driveDownload", "r_driveSwap", "r_driveCleanup", "r_pick", "r_stage",
   "r_move", "r_fallbackCopy", "r_fallbackDelete", "r_cleanup"}

CanonicalChanged ==
  \/ Exists(fs, CANONICAL_DB_PATH) # Exists(fs', CANONICAL_DB_PATH)
  \/ /\ Exists(fs, CANONICAL_DB_PATH)
     /\ Exists(fs', CANONICAL_DB_PATH)
     /\ fs[CANONICAL_DB_PATH] # fs'[CANONICAL_DB_PATH]

\* C5: a staging or swap step changes the canonical path only by putting
\* there the content of a temp file beside it that was written in full by
\* an earlier step; the inbound bytes are never written to it directly.
C5_StagedFirst ==
  [][(pc["R"] \in StagingSwapPcs /\ CanonicalChanged) =>
       \E tmp \in {tempRestore, driveTmp} :
          /\ Exists(fs, tmp)
          /\ Exists(fs', CANONICAL_DB_PATH)
          /\ fs'[CANONICAL_DB_PATH] = fs[tmp]]_vars

C5_Witness ==
  /\ pc["R"] = "r_fallbackDelete"
  /\ Exists(fs, tempRestore)
  /\ fs[CANONICAL_DB_PATH] = fs[tempRestore]
  /\ IsFile(fs0, CANONICAL) /\ fs0[CANONICAL] # uri

\* C6: in the log of every handler call, each copy of the live database
\* file (bare-to-canonical copy, copy to the backup destination) comes
\* after a handle-release attempt.
C6_ReleaseBeforeCopy ==
  \A t \in Tasks : After(t, {"release"}, "copyLive")

C6_Witness ==
  /\ pc["B"] = "bk_sidecars"
  /\ log["B"] = <<"release", "copyLive", "copyLive">>

\* C7: in every restore, the pre-restore snapshot has completed or failed
\* before the first step that changes the canonical file.
C7_SnapshotBeforeSwap ==
  After("R", {"snapDone", "snapFailed"}, "swap")

C7_Witness ==
  /\ HasEvent("R", "swap")
  /\ HasEvent("R", "snapFailed")

\* C8 as claimed: a reload/remount request is issued only after the swap
\* step has finished.
C8_AsClaimed ==
  After("R", {"swapDone"}, "reload")

\* C8 amended: a reload/remount request is issued only after the swap step
\* has finished or, on the failure path, after the rollback copy onto the
\* canonical path has finished; no swap step follows a reload request.
C8_ReloadAfterSwap ==
  /\ After("R", {"swapDone", "rollback"}, "reload")
  /\ \A i \in 1..Len(log["R"]) :
       log["R"][i] = "reload" =>
         \A j \in (i + 1)..Len(log["R"]) :
            log["R"][j] \notin {"stage", "swap", "swapDone"}

C8_Witness ==
  /\ pc["R"] = "done"
  /\ outcome = "rolledBack"
  /\ HasEvent("R", "swapDone")
  /\ HasEvent("R", "rollback")

\* C9 as claimed: both parts of ReleasingHandles, the coordinator and the
\* direct checkpoint+close of the UI-held connection, are finished before
\* the pre-restore snapshot is taken.
C9_AsClaimed ==
  /\ After("R", {"release"}, "snapDone")
  /\ After("R", {"uiClose"}, "snapDone")

\* C9 amended: the restore follows the order handle-release coordinator,
\* Snapshotting, direct checkpoint and close of the UI-held connection,
\* Staging, Swapping, Reopening: the coordinator is finished before the
\* snapshot is taken, and the direct checkpoint+close comes after the
\* snapshot and before staging.
C9_StateOrder ==
  /\ After("R", {"release"}, "snapDone")
  /\ After("R", {"release"}, "snapFailed")
  /\ After("R", {"snapDone", "snapFailed"}, "uiCheckpoint")
  /\ After("R", {"uiCheckpoint"}, "uiClose")
  /\ After("R", {"uiClose"}, "stage")
  /\ After("R", {"stage"}, "swap")
  /\ After("R", {"swap"}, "swapDone")
  /\ After("R", {"swapDone", "rollback"}, "reload")

C9_Witness ==
  /\ pc["R"] = "done"
  /\ outcome = "restored"
  /\ log["R"] = <<"release", "release", "copyLive", "snapDone",
                  "uiCheckpoint", "uiClose", "stage", "swap", "swapDone",
                  "reload">>

\* C10: a failed pre-restore snapshot does not abort the restore: the
\* handler goes on to the checkpoint/close, staging and swap steps, and no
\* snapshot path is remembered.
C10_SnapshotFailureContinues ==
  \A i \in 1..Len(log["R"]) :
     log["R"][i] = "snapFailed" =>
       /\ preRestoreSnapshot = NoSnapshot
       /\ IF i = Len(log["R"])
            THEN pc["R"] = "r_checkpoint"
            ELSE log["R"][i + 1] = "uiCheckpoint"

C10_Witness ==
  /\ HasEvent("R", "snapFailed")
  /\ HasEvent("R", "swapDone")
  /\ preRestoreSnapshot = NoSnapshot
  /\ fs[CANONICAL] = uri

\* C11: when a restore fails and no pre-restore snapshot is remembered, the
\* failure handler attempts no rollback, writes and deletes nothing (the
\* canonical file stays as the failed staging or swap step left it),
\* reports the plain failure and clears the busy flag.
C11_NoRollbackWithoutSnapshot ==
  [][(pc["R"] = "r_catch" /\ preRestoreSnapshot = NoSnapshot) =>
       /\ fs' = fs
       /\ bk' = bk
       /\ pc'["R"] = "done"
       /\ outcome' = "failed"
       /\ isRestoring' = FALSE
       /\ \A i \in 1..Len(log'["R"]) : log'["R"][i] # "rollback"]_vars

C11_Witness ==
  /\ pc["R"] = "done"
  /\ outcome = "failed"
  /\ HasEvent("R", "snapFailed")
  /\ HasEvent("R", "stageFailed")
  /\ IsFile(fs, CANONICAL)
  /\ fs[CANONICAL] = fs0[CANONICAL]

\* C12 as claimed: after a successful restore in which no I/O call failed,
\* on the Drive path and on the local-file path alike, no -wal or -shm
\* file exists next to the canonical path or next to the legacy bare path.
C12_AsClaimed ==
  (pc["R"] = "done" /\ outcome = "restored" /\ faults = 0) =>
    \A p \in {CANONICAL, BARE}, s \in SidecarSuffixes :
       ~Exists(fs, Append(p, s))

Running(t) == pc[t] \notin {"idle", "done"}

\* C13 as claimed: under any interleaving of the user actions Backup Now
\* and Restore, no handleRestoreBackup runs while the backupNow of a
\* handleBackupNow call is running.
C13_AsClaimed ==
  ~(Running("R") /\ Running("B"))

\* a resolver call has been made and recorded
Called == resolved # NoPath

HasPrefixEntry(f) == \E p \in DOMAIN f : StartsWithPrefix(p)

\* resolved is the first entry of the listing that starts with the prefix
FirstPrefixEntry ==
  \E j \in 1..Len(listing) :
     /\ listing[j] = resolved
     /\ StartsWithPrefix(listing[j])
     /\ \A i \in 1..(j - 1) : ~StartsWithPrefix(listing[i])

Seen(p) == IsFile(resolvedOn, p) /\ p \notin probeThrows

ReleaseCount(l) == Cardinality({i \in 1..Len(l) : l[i] = "release"})

\* C16: resolveDatabasePath throws not-found exactly when no fixed
\* candidate is reported as a regular file by its probe (a throwing probe
\* counts as 'does not exist' and the next candidate is tried) and the
\* listing throws or has no entry that starts with the prefix; and a
\* backupDatabase call whose resolver throws ends there: no handle release
\* is attempted and no file is created or changed.
C16_NotFound ==
  /\ [](Called =>
         /\ resolved = NotFound <=>
              /\ ~Seen(CANONICAL)
              /\ ~Seen(BARE)
              /\ listThrows \/ ~HasPrefixEntry(resolvedOn)
         /\ (Seen(BARE) /\ ~Seen(CANONICAL)) => resolved = BARE)
  /\ [][\A t \in Tasks :
          (pc[t] = "bk_resolve" /\ resolveDatabasePath(fs) = {}) =>
            /\ pc'[t] = BackupThrowPc(t)
            /\ fs' = fs
            /\ bk' = bk
            /\ meta' = meta
            /\ ReleaseCount(log'[t]) = ReleaseCount(log[t])]_vars

C16_Witness ==
  /\ resolved = NotFound
  /\ IsFile(resolvedOn, CANONICAL)
  /\ probeThrows = {CANONICAL}
  /\ listThrows

\* the backupDatabase call of task t has just returned its artifact
BackupReturned(t) ==
  IF t # "R" THEN pc[t] = "n_meta"
  ELSE /\ pc[t] = "r_checkpoint"
       /\ Len(log[t]) > 0
       /\ log[t][Len(log[t])] = "snapDone"

SidecarKind(s) == IF s = "-wal" THEN "wal" ELSE "shm"

\* C18 as claimed: in every layout, when no I/O call failed, each -wal or
\* -shm file that exists next to the database file that
\* resolveDatabasePath returned has, after backupDatabase, a counterpart
\* <artifact>-wal or <artifact>-shm with identical content in the backups
\* directory.
C18_AsClaimed ==
  \A t \in Tasks :
     (BackupReturned(t) /\ faults = 0) =>
       \A s \in SidecarSuffixes :
          Exists(fs, Append(srcPath[t], s)) =>
            /\ Exists(bk, <<dest[t], SidecarKind(s)>>)
            /\ bk[<<dest[t], SidecarKind(s)>>] = fs[Append(srcPath[t], s)]

SinkEvents == {"drive", "upload", "share"}

\* C19: when the copy of the source to the backup destination fails,
\* backupDatabase fails at once, without another copy attempt; backupNow
\* fails with it, so handleBackupNow reports 'Backup failed', no artifact
\* and no file is written, no sink (Drive, HTTP upload, share) is
\* attempted and backup_meta.json keeps its content.
C19_CopyFailure ==
  /\ [][(/\ pc["B"] = "bk_copyDest"
          /\ pc'["B"] \notin {"bk_copyDest", "bk_sidecars"}) =>
          /\ pc'["B"] = "done"
          /\ outcome' = "backupFailed"
          /\ bk' = bk
          /\ fs' = fs
          /\ meta' = meta]_vars
  /\ [](outcome = "backupFailed" =>
          /\ pc["B"] = "done"
          /\ \A i \in 1..Len(log["B"]) : log["B"][i] \notin SinkEvents)

C19_Witness ==
  /\ pc["B"] = "done"
  /\ outcome = "backupFailed"
  /\ Len(log["B"]) > 0
  /\ log["B"][Len(log["B"])] = "copyLive"
  /\ meta # 0
  /\ meta < now
  /\ DOMAIN bk = {<<meta, "db">>}

\* C20 as claimed: an artifact once written is never mutated: every
\* backupDatabase call, two calls within one clock second included, writes
\* its artifact to a path at which nothing existed before, and every step
\* (restore and rollback among them) leaves the existing files of the
\* backups directory as they are.
C20_AsClaimed ==
  [][/\ \A t \in Tasks :
          (pc[t] = "bk_copyDest" /\ pc'[t] = "bk_sidecars") =>
            <<dest'[t], "db">> \notin DOMAIN bk
     /\ \A k \in DOMAIN bk : k \in DOMAIN bk' /\ bk'[k] = bk[k]]_vars

\* the setLastBackupTimestamp call of task t's backupNow ends in this step
MetaStep(t) == pc[t] = "n_meta" /\ pc'[t] # "n_meta"

Count(t, e) == Cardinality({i \in 1..Len(log[t]) : log[t][i] = e})

\* C22: backupNow calls the sinks in the order Google Drive, HTTP upload,
\* share sheet, each at most once, and stops at the first that returns
\* true: the HTTP upload is called only after the Drive upload returned
\* false, the share sheet only after both returned false, so at most one
\* of the result flags googleDrive, uploaded, shared is true.
C22_SinkOrder ==
  \A t \in BackupTasks :
     /\ \A e \in SinkEvents \cup Flags : Count(t, e) <= 1
     /\ After(t, {"drive"}, "upload")
     /\ After(t, {"upload"}, "share")
     /\ HasEvent(t, "upload") => ~HasEvent(t, "googleDrive")
     /\ HasEvent(t, "share") =>
          ~HasEvent(t, "googleDrive") /\ ~HasEvent(t, "uploaded")
     /\ Cardinality({e \in Flags : HasEvent(t, e)}) <= 1
     /\ (\E e \in Flags : HasEvent(t, e)) =>
          /\ pc[t] = "done"
          /\ log[t][Len(log[t])] \in Flags

C22_Witness ==
  /\ pc["B"] = "done"
  /\ HasEvent("B", "drive")
  /\ HasEvent("B", "upload")
  /\ HasEvent("B", "shared")

SinkPcs == {"n_meta", "n_drive", "n_upload", "n_share"}

\* C23: once backupDatabase has succeeded, backupNow goes through the
\* write of backup_meta.json and the sinks to its return, whatever they
\* do: no step of them fails the call, touches the artifact or changes the
\* uri, and handleBackupNow reports the backup as uploaded or as saved
\* locally at the uri of the artifact, never as failed.
C23_SinksNonFatal ==
  /\ [][\A t \in BackupTasks :
          (pc[t] \in SinkPcs /\ pc'[t] # pc[t]) =>
            /\ pc'[t] \in SinkPcs \cup {"done"}
            /\ outcome' # "backupFailed"
            /\ dest'[t] = dest[t]
            /\ bk' = bk]_vars
  /\ [](\A t \in BackupTasks :
          (pc[t] = "done" /\ HasEvent(t, "drive")) =>
            /\ outcome = IF HasEvent(t, "googleDrive")
                           THEN "backupUploaded" ELSE "backupSaved"
            /\ Exists(bk, <<dest[t], "db">>)
            /\ bk[<<dest[t], "db">>] = src[t])

C23_Witness ==
  /\ pc["B"] = "done"
  /\ outcome = "backupSaved"
  /\ HasEvent("B", "share")
  /\ \A e \in Flags : ~HasEvent("B", e)
  /\ meta = 0
  /\ faults = 1
  /\ Exists(bk, <<dest["B"], "db">>)

\* the call i of refreshSQLiteProvider has returned
Returned(i) == reqs[i].pc = "done"

\* C24 as claimed: of two calls of refreshSQLiteProvider made less than
\* 1000 ms apart, the first of them accepted, exactly one invocation of
\* the registered callback results, and a third call made once 1000 ms
\* have passed since the first results in a second invocation.
C24_AsClaimed ==
  \A i \in DOMAIN reqs :
     (/\ i + 2 \in DOMAIN reqs
      /\ \A j \in i..(i + 2) : Returned(j)
      /\ reqs[i].accepted
      /\ reqs[i + 1].at - reqs[i].at < DEBOUNCE_MS
      /\ reqs[i + 2].at - reqs[i].at >= DEBOUNCE_MS) =>
       /\ reqs[i].invoked + reqs[i + 1].invoked = 1
       /\ reqs[i + 2].invoked = 1

\* the same for a callback that returns normally on its first invocation
DebounceOfReturningCallback ==
  \A i \in DOMAIN reqs :
     (/\ i + 2 \in DOMAIN reqs
      /\ \A j \in i..(i + 2) : Returned(j)
      /\ reqs[i].accepted
      /\ reqs[i + 1].at - reqs[i].at < DEBOUNCE_MS
      /\ reqs[i + 2].at - reqs[i].at >= DEBOUNCE_MS
      /\ \A j \in i..(i + 2) : reqs[j].invoked < 2) =>
       /\ reqs[i].invoked + reqs[i + 1].invoked = 1
       /\ reqs[i + 2].invoked = 1

\* the instant of the last call before call i that was accepted, 0 if none
LastAccepted(i) ==
  LET earlier == {j \in 1..(i - 1) : reqs[j].accepted}
  IN IF earlier = {} THEN 0
     ELSE reqs[CHOOSE j \in earlier : \A k \in earlier : k <= j].at

\* C25: a call of refreshSQLiteProvider made less than 1000 ms after the
\* previous accepted call returns false at once and does nothing: it calls
\* no openAsync, invokes no callback, and leaves lastNativeRefresh and the
\* provider as they were.  The window is measured from the previous
\* accepted call: a call is dropped exactly when less than 1000 ms have
\* passed since that one, however many calls were dropped in between.
C25_DebouncedNoOp ==
  /\ [](\A i \in DOMAIN reqs :
          /\ reqs[i].accepted <=> reqs[i].at - LastAccepted(i) >= DEBOUNCE_MS
          /\ ~reqs[i].accepted =>
               /\ Returned(i)
               /\ reqs[i].result = "false"
               /\ reqs[i].opens = 0
               /\ reqs[i].invoked = 0)
  /\ [](lastNativeRefresh = LastAccepted(Len(reqs) + 1))
  /\ [][(Len(reqs') > Len(reqs) /\ ~reqs'[Len(reqs')].accepted) =>
          /\ native' = native
          /\ root' = root]_vars

C25_Witness ==
  /\ Len(reqs) = 3
  /\ reqs[1].accepted
  /\ ~reqs[2].accepted
  /\ reqs[2].at = reqs[1].at + HalfWindow
  /\ reqs[3].accepted
  /\ reqs[3].at = reqs[1].at + DEBOUNCE_MS

\* C26 as claimed: every accepted call of refreshSQLiteProvider that found
\* a callback registered has, when it returns, invoked it exactly once,
\* whether the callback returned normally or threw.
C26_AsClaimed ==
  \A i \in DOMAIN reqs :
     (Returned(i) /\ reqs[i].accepted /\ reqs[i].registered) =>
       reqs[i].invoked = 1

\* C27 as claimed: a call of refreshSQLiteProvider resolves to true only
\* after the provider has called notifyProviderRemounted(true) for the
\* remount that the call requested.
C27_AsClaimed ==
  \A i \in DOMAIN reqs : reqs[i].result = "true" => reqs[i].acked

\* C28 as claimed: once the provider is mounted, every accepted call of
\* refreshSQLiteProvider bumps the provider key through the registered
\* callback, which is what unmounts the provider and mounts it again.
C28_AsClaimed ==
  \A i \in DOMAIN reqs :
     (Returned(i) /\ reqs[i].accepted /\ reqs[i].started) =>
       reqs[i].bumped

\* C29: notifyProviderRemounted(true) is called for a connection only once
\* migrateDbIfNeeded has completed on it, one call per connection, and
\* when migrateDbIfNeeded throws no acknowledgment is issued for that
\* connection.
C29_AckAfterMigration ==
  /\ [][root.acks' # root.acks =>
          /\ root.provider = "migrated"
          /\ root.provider' = "notified"
          /\ root.acks' = root.acks + 1]_vars
  /\ [][root.provider' = "failed" =>
          /\ root.provider \in {"opening", "failed"}
          /\ root.acks' = root.acks]_vars

C29_Witness ==
  /\ root.provider = "failed"
  /\ root.acks = 1
  /\ dbKey = 1

\* no startup migration, backup or restore is under way
Steady ==
  /\ \A t \in Tasks : pc[t] = "idle"
  /\ root.pc = "done"

\* C30 as claimed: started on a directory that holds exactly one of
\* debitmanager.db and the bare debitmanager, the application has exactly
\* one of the two whenever no startup migration, backup or restore is
\* under way.
C30_AsClaimed ==
  Steady => (IsFile(fs, CANONICAL) # IsFile(fs, BARE))

\* the same as long as no I/O call has failed
OneFileWithoutFaults ==
  (Steady /\ faults = 0) => (IsFile(fs, CANONICAL) # IsFile(fs, BARE))

\* ---- C31
DigitValue(c) == CHOOSE n \in 0..9 : DecimalDigits[n + 1] = c
IsDigit(c) == \E n \in 0..9 : DecimalDigits[n + 1] = c
\* the number that the digits s[from..to] denote
RECURSIVE Number(_, _, _)
Number(s, from, to) ==
  IF to < from THEN 0
  ELSE 10 * Number(s, from, to - 1) + DigitValue(s[to])

\* C31: timestamp() yields YYYY-MM-DDTHH-mm-ss, then the sign of the UTC
\* offset ('+' when it is >= 0), the two digits of floor(|offset| / 60) and
\* the two digits of |offset| mod 60, with no colon; the fields read back
\* as the local time and sign * (60 * HH + MM) as the offset
C31_TimestampFormat ==
  localStamp # NoStamp =>
    LET s == localStamp
        offset == 0 - date.timezoneOffset
        sign == IF s[20] = "+" THEN 1 ELSE 0 - 1
        HH == Number(s, 21, 22)
        MM == Number(s, 23, 24)
    IN /\ Len(s) = 24
       /\ s[5] = "-" /\ s[8] = "-" /\ s[11] = "T" /\ s[14] = "-"
       /\ s[17] = "-"
       /\ s[20] \in {"+", "-"}
       /\ \A i \in (1..24) \ {5, 8, 11, 14, 17, 20} : IsDigit(s[i])
       /\ Number(s, 1, 4) = date.fullYear
       /\ Number(s, 6, 7) = date.month + 1
       /\ Number(s, 9, 10) = date.date
       /\ Number(s, 12, 13) = date.hours
       /\ Number(s, 15, 16) = date.minutes
       /\ Number(s, 18, 19) = date.seconds
       /\ (s[20] = "+") = (offset >= 0)
       /\ HH = Abs(offset) \div 60
       /\ MM = Abs(offset) % 60
       /\ sign * (60 * HH + MM) = offset

\* a stamp made west of UTC at an offset that is not a whole hour, with
\* one-digit seconds
C31_Witness ==
  /\ localStamp # NoStamp
  /\ date.timezoneOffset = 570
  /\ date.seconds < 10
  /\ localStamp[20] = "-"

\* ---- C32
\* the attempts of request q went through the candidates in their order,
\* whatever failed
InCandidateOrder(q) ==
  /\ Len(q.attempts) <= Len(DB_CANDIDATES)
  /\ \A k \in 1..Len(q.attempts) : q.attempts[k].name = DB_CANDIDATES[k]
\* q is past its loop over the candidates
PastAttempts(q) == q.accepted /\ q.pc \in {"callback", "catch", "done"}

\* the request left its try block at require('expo-sqlite')
RequireThrew(q) ==
  \/ q.pc = "catch"
  \/ (q.pc = "done" /\ q.accepted /\ q.result = "false" /\ q.invoked < 2)

\* C32: an accepted request whose require('expo-sqlite') returned makes
\* the open/checkpoint/close attempt for 'debitmanager.db' and then for
\* 'debitmanager', also after a failed attempt, and has made them all when
\* it invokes the remount callback; one whose require threw makes none
C32_AllCandidates ==
  \A i \in DOMAIN reqs :
    LET q == reqs[i]
        all == Len(DB_CANDIDATES)
    IN /\ InCandidateOrder(q)
       /\ q.opens = Len(q.attempts)
       /\ (PastAttempts(q) /\ ~RequireThrew(q)) => (Len(q.attempts) = all)
       /\ RequireThrew(q) => (q.attempts = << >>)
       /\ (q.invoked > 0 /\ ~RequireThrew(q)) => (Len(q.attempts) = all)

\* a request whose first attempt failed has invoked the callback
C32_Witness ==
  \E i \in DOMAIN reqs :
    /\ reqs[i].invoked > 0
    /\ Len(reqs[i].attempts) = Len(DB_CANDIDATES)
    /\ reqs[i].attempts[1].failed

\* ---- C33
\* the steps of the migration that move the main file
MainMigrationPcs == {"m_move", "m_copy", "m_delete"}
\* when the migration has ended and the bare file is still there, the
\* canonical file is one that was there from the start (InitFs gives it
\* the content F_db, the bare file F_bare)
Migrated ==
  (migrationDone /\ Exists(fs, BARE)) =>
    (IsFile(fs, CANONICAL) /\ fs[CANONICAL] = F_db)
\* a canonical file that exists is not written by the migration
NotOverwritten ==
  (root.pc \in MainMigrationPcs /\ IsFile(fs, CANONICAL)) =>
    (IsFile(fs', CANONICAL) /\ fs'[CANONICAL] = fs[CANONICAL])
\* with the canonical file there from the start, no file changes
Untouched ==
  (IsFile(fs, CANONICAL) /\ fs[CANONICAL] = F_db) => (fs' = fs)

\* C33 as claimed: a bare file without a canonical one is migrated, so
\* that the canonical file has its content and the bare file is gone; a
\* canonical file that exists is never overwritten and then no file changes
C33_AsClaimed == []Migrated /\ [][NotOverwritten /\ Untouched]_vars

\* the same as long as no I/O call has failed
MigratedWithoutFaults ==
  /\ [](faults = 0 => Migrated)
  /\ [][faults' = 0 => (NotOverwritten /\ Untouched)]_vars

\* ---- C34
\* C34: the SQLite provider is not rendered, and so opens no connection,
\* until the startup filename migration has ended, whether it moved the
\* file, had nothing to do or failed
C34_ProviderAfterMigration ==
  root.provider # "none" => (root.pc = "done" /\ migrationDone)

\* the provider is mounted after a migration that failed: the bare file is
\* still the only one
C34_Witness ==
  /\ root.provider = "mounted"
  /\ root.launches = 1
  /\ ops = 0
  /\ Exists(fs, BARE)
  /\ ~Exists(fs, CANONICAL)

\* ---- C35
\* C35 as claimed: once the swap of a restore has succeeded, the canonical
\* file is not written from the pre-restore snapshot, whatever fails later
C35_AsClaimed ==
  HasEvent("R", "swapDone") =>
    /\ ~HasEvent("R", "rollback")
    /\ pc["R"] \notin {"r_rbResolve", "r_rbStage", "r_rbMove", "r_rbCopy",
                       "r_rbDelete"}

\* ---- C36
\* C36 as claimed: a call of handleRestoreBackup that has closed the
\* UI-held connection requests a reload before it returns
C36_AsClaimed ==
  (pc["R"] = "done" /\ HasEvent("R", "uiClose")) =>
    (dbOpen \/ HasEvent("R", "reload"))

\* ---- C37
\* C37 as claimed: a call of handleRestoreBackup that returns without
\* having reloaded the application has cleared isRestoring
C37_AsClaimed ==
  (pc["R"] = "done" /\ outcome # "restored" /\ outcome # "rolledBack") =>
    ~isRestoring

\* the paths on which the busy flag is cleared: every return through the
\* catch block
ClearedInCatch ==
  (pc["R"] = "done" /\ HasEvent("R", "catch")) => ~isRestoring

\* ---- C38
\* C38 as claimed: while the main file has not been migrated (the bare
\* file is there and no canonical file is), no sidecar has been moved to
\* the canonical name
C38_AsClaimed ==
  (IsFile(fs, BARE) /\ ~Exists(fs, CANONICAL)) =>
    \A s \in SidecarSuffixes : ~Exists(fs, Append(CANONICAL, s))

\* ---- C39
\* the restore's temporary files in directory f
TempFiles(f) ==
  {p \in DOMAIN f :
     Len(p) > 0 /\ p[Len(p)] \in {".restore.tmp", ".rollback.tmp"}}

\* C39 as claimed: when handleRestoreBackup has finished, no
\* <canonical>.restore.tmp or <canonical>.rollback.tmp is left in the
\* SQLite directory
C39_AsClaimed == pc["R"] = "done" => TempFiles(fs) = {}

\* the same as long as no I/O call has failed
NoTempWithoutFaults == (pc["R"] = "done" /\ faults = 0) => TempFiles(fs) = {}

\* ---- C40
\* p is a regular file of directory f that is neither a -wal/-shm sidecar
\* nor a temp file of the restore
RegularDatabaseFile(f, p) ==
  /\ IsFile(f, p)
  /\ Len(p) > 0 =>
       p[Len(p)] \notin SidecarSuffixes \cup {".restore.tmp", ".rollback.tmp"}

\* C40 as claimed: the path that resolveDatabasePath returns is a regular
\* database file, on every directory content
C40_AsClaimed ==
  (Called /\ resolved # NotFound) => RegularDatabaseFile(resolvedOn, resolved)

\* C40 amended: the path that resolveDatabasePath returns is an entry of
\* the directory whose name starts with 'debitmanager'; it is a regular
\* database file whenever the probe of a fixed candidate reported one, and
\* otherwise it is the first prefix entry of the listing, whatever that
\* entry is
C40_RegularFromCandidates ==
  (Called /\ resolved # NotFound) =>
    /\ Exists(resolvedOn, resolved)
    /\ StartsWithPrefix(resolved)
    /\ (Seen(CANONICAL) \/ Seen(BARE)) =>
         /\ RegularDatabaseFile(resolvedOn, resolved)
         /\ resolved \in {CANONICAL, BARE}
    /\ ~RegularDatabaseFile(resolvedOn, resolved) => FirstPrefixEntry

\* the candidate loop skipped debitmanager.db because it is a directory,
\* and the listing fallback returned it
C40_Witness ==
  /\ resolved = CANONICAL
  /\ resolvedOn[CANONICAL] = Dir
  /\ probeThrows = {}
====
